---- MODULE Spec2Model ----
(***************************************************************************)
(* Resumable download engine (main.go, downloadPDFWithProgress and         *)
(* getTotalFileSize) together with the web layer that starts transfers and *)
(* fans their progress records out to WebSocket observers (web.go,         *)
(* handleDownload, handleWebSocket, broadcastProgress).                    *)
(*                                                                         *)
(* Bytes are numbered: the byte at position i of the remote source has     *)
(* value i, so a destination file is a correct copy of a source of size N  *)
(* exactly when it is <<1, 2, ..., N>>.                                     *)
(*                                                                         *)
(* percent is a float64 in the code, computed as                           *)
(* float64(downloaded) / float64(total) * 100.  It is kept here as the     *)
(* exact ratio <<numerator, denominator>>; a zero denominator stands for   *)
(* the NaN / +Inf the float division by zero yields.                       *)
(***************************************************************************)
EXTENDS Integers, Sequences, FiniteSets, TLC

\* Bounds of the model.
MaxTotal == 2
MaxChunk == 2
MaxTasks == 1
MaxParallel == 2
MaxConns == 2
MaxUrlLen == 4
MaxTimeoutLen == 4

\* Goroutine identifiers: MaxTasks transfers are requested where they run
\* one at a time, MaxParallel where they run side by side.
Tasks == 1..(IF MaxTasks > MaxParallel THEN MaxTasks ELSE MaxParallel)
Conns == 1..MaxConns

\* Strings are sequences of bytes.  The bytes the code looks for:
Ch == [slash |-> 47, query |-> 63, dot |-> 46, under |-> 95, pct |-> 37,
       plus |-> 43, minus |-> 45, colon |-> 58, hash |-> 35, at |-> 64,
       lbrack |-> 91, rbrack |-> 93]

\* ".pdf", ".PDF", "download" and "output"
DotPdf == <<46, 112, 100, 102>>
DotPDF == <<46, 80, 68, 70>>
Download == <<100, 111, 119, 110, 108, 111, 97, 100>>
Output == <<111, 117, 116, 112, 117, 116>>

\* The pieces URLs are made of: "x", "1", "_", "/", "?", "%", ".pdf", ".PDF"
\* and the escapes "%2F" (a slash) and "%2E" (a dot).
UrlTokens == {<<120>>, <<49>>, <<Ch.under>>, <<Ch.slash>>, <<Ch.query>>,
              <<Ch.pct>>, DotPdf, DotPDF, <<Ch.pct, 50, 70>>, <<Ch.pct, 50, 69>>}

\* The URL of the transfers that are followed to their end:
\* "http://h/x.pdf".
URLs == {<<104, 116, 116, 112, 58, 47, 47, 104, 47, 120>> \o DotPdf}

\* time.Now().Unix() printed with %d: "17", "18".
Clock == {<<49, 55>>, <<49, 56>>}
ChunkSizes == 1..MaxChunk

VARIABLES
    files,      \* destination path -> the file on disk: whether it exists and
                \* its content
    config,     \* ws.config
    nextTask,   \* number of POST /download requests accepted so far
    pc,         \* task -> position of its handler and then of its goroutine
    eng,        \* task -> locals of handleDownload and of its
                \* downloadPDFWithProgress call
    progress,   \* task -> its DownloadProgress record
    hub,        \* ws.clients, ws.clientsMu and the state of every connection
    registry    \* ws.progress: task identifier -> record

vars == <<files, config, nextTask, pc, eng, progress, hub, registry>>

----------------------------------------------------------------------------
\* Helpers

Min(a, b) == IF a < b THEN a ELSE b

Last(q) == q[Len(q)]

\* The bytes of the source at positions from+1 .. from+len.
Bytes(from, len) == [i \in 1..len |-> from + i]

Take(s, n) == SubSeq(s, 1, n)
Drop(s, n) == SubSeq(s, n + 1, Len(s))

\* file.Write(data) at offset pos of content f.  (A write beyond the end of
\* the file leaves a hole of zero bytes.)
WriteAt(f, pos, data) ==
    (IF pos <= Len(f) THEN Take(f, pos)
     ELSE f \o [i \in 1..(pos - Len(f)) |-> 0])
    \o data \o Drop(f, Min(Len(f), pos + Len(data)))

\* float64(downloaded) / float64(total) * 100
Percent(downloaded, total) == <<100 * downloaded, total>>

PctEq(p, q) == p[2] # 0 /\ q[2] # 0 /\ p[1] * q[2] = q[1] * p[2]
PctInRange(p) == p[2] > 0 /\ 0 <= p[1] /\ p[1] <= 100 * p[2]

----------------------------------------------------------------------------
\* Natural numbers of any size (int64 and uint64 values do not fit the
\* integers of the model checker): sequences of decimal digits 0..9, most
\* significant first, without leading zeros; <<>> is zero.

Norm(d) ==
    IF \A i \in DOMAIN d : d[i] = 0 THEN <<>>
    ELSE SubSeq(d, CHOOSE i \in DOMAIN d : d[i] # 0 /\ \A j \in 1..(i - 1) : d[j] = 0,
                Len(d))

Rev(s) == [i \in 1..Len(s) |-> s[Len(s) + 1 - i]]

\* a < b
BigLess(a, b) ==
    \/ Len(a) < Len(b)
    \/ /\ Len(a) = Len(b)
       /\ \E i \in DOMAIN a : a[i] < b[i] /\ \A j \in 1..(i - 1) : a[j] = b[j]

\* The arithmetic goes four digits at a time: Limbs(a) is the number a in
\* base 10000, most significant limb first, and Digits(l) the digits of the
\* number with the limbs l.
Limbs(a) ==
    LET n        == Len(a)
        digit(p) == IF p >= 1 THEN a[p] ELSE 0
        last(j)  == n - 4 * ((n + 3) \div 4 - j)
    IN  Norm([j \in 1..((n + 3) \div 4) |->
                 digit(last(j) - 3) * 1000 + digit(last(j) - 2) * 100
                 + digit(last(j) - 1) * 10 + digit(last(j))])

Digits(l) ==
    Norm([i \in 1..(4 * Len(l)) |->
             (l[(i + 3) \div 4] \div 10^(3 - ((i - 1) % 4))) % 10])

\* Least significant limb first: a + b + c.
RECURSIVE AddRev(_, _, _)
AddRev(a, b, c) ==
    IF a = <<>> /\ b = <<>> THEN (IF c = 0 THEN <<>> ELSE <<c>>)
    ELSE LET x == IF a = <<>> THEN 0 ELSE a[1]
             y == IF b = <<>> THEN 0 ELSE b[1]
             s == x + y + c
         IN  <<s % 10000>> \o AddRev(IF a = <<>> THEN a ELSE Tail(a),
                                     IF b = <<>> THEN b ELSE Tail(b), s \div 10000)

BigAdd(a, b) ==
    IF a = <<>> THEN b
    ELSE IF b = <<>> THEN a
    ELSE Digits(Rev(AddRev(Rev(Limbs(a)), Rev(Limbs(b)), 0)))

\* Least significant limb first: a * k + c, for 0 <= k <= 1<<17.
RECURSIVE MulRev(_, _, _)
MulRev(a, k, c) ==
    IF a = <<>>
    THEN (IF c = 0 THEN <<>> ELSE <<c % 10000>> \o MulRev(a, k, c \div 10000))
    ELSE <<(a[1] * k + c) % 10000>> \o MulRev(Tail(a), k, (a[1] * k + c) \div 10000)

BigMul(a, k) == IF a = <<>> THEN <<>> ELSE Digits(Rev(MulRev(Rev(Limbs(a)), k, 0)))

\* a * 10^n and a \div 10^n
BigShift(a, n) == IF a = <<>> THEN <<>> ELSE a \o [i \in 1..n |-> 0]
BigDropLast(a, n) == IF Len(a) <= n THEN <<>> ELSE Take(a, Len(a) - n)

\* 1<<63 and 1<<63 - 1
Two63 == <<9, 2, 2, 3, 3, 7, 2, 0, 3, 6, 8, 5, 4, 7, 7, 5, 8, 0, 8>>
MaxInt64 == <<9, 2, 2, 3, 3, 7, 2, 0, 3, 6, 8, 5, 4, 7, 7, 5, 8, 0, 7>>

\* The number written by a string of decimal digits.
DigitsOf(s) == Norm([i \in DOMAIN s |-> s[i] - 48])

\* a * b, a limb of b at a time
RECURSIVE BigTimes(_, _)
BigTimes(a, b) ==
    IF b = <<>> THEN <<>>
    ELSE BigAdd(BigShift(BigTimes(a, BigDropLast(b, 4)), 4),
                BigMul(a, Limbs(b)[Len(Limbs(b))]))

\* a \div k and a % k for 0 < k <= 1<<17, most significant limb first with
\* the carry c
RECURSIVE DivSmallFrom(_, _, _)
DivSmallFrom(a, k, c) ==
    IF a = <<>> THEN <<>>
    ELSE <<(c * 10000 + a[1]) \div k>>
         \o DivSmallFrom(Tail(a), k, (c * 10000 + a[1]) % k)

DivSmall(a, k) == IF a = <<>> THEN <<>> ELSE Digits(DivSmallFrom(Limbs(a), k, 0))

RECURSIVE ModSmallFrom(_, _, _)
ModSmallFrom(a, k, c) ==
    IF a = <<>> THEN c ELSE ModSmallFrom(Tail(a), k, (c * 10000 + a[1]) % k)

ModSmall(a, k) == ModSmallFrom(Limbs(a), k, 0)

\* Least significant limb first: a - b - c, for a >= b + c.
RECURSIVE SubRev(_, _, _)
SubRev(a, b, c) ==
    IF a = <<>> THEN <<>>
    ELSE LET d == a[1] - (IF b = <<>> THEN 0 ELSE b[1]) - c
         IN  <<IF d < 0 THEN d + 10000 ELSE d>>
             \o SubRev(Tail(a), IF b = <<>> THEN b ELSE Tail(b),
                       IF d < 0 THEN 1 ELSE 0)

\* a - b, for a >= b
BigSub(a, b) ==
    IF b = <<>> THEN a ELSE Digits(Rev(SubRev(Rev(Limbs(a)), Rev(Limbs(b)), 0)))

\* Long division by b > 0.  [d, r]: how often b goes into r, counted from d
\* on, and what is left.
RECURSIVE quoDigit(_, _, _)
quoDigit(r, b, d) ==
    IF BigLess(r, b) THEN [d |-> d, r |-> r] ELSE quoDigit(BigSub(r, b), b, d + 1)

\* A digit c is brought down to the remainder r.
digitStep(r, c, b) == quoDigit(Norm(Append(r, c)), b, 0)

\* Four digits l are brought down: [q, r], the four digits they add to the
\* quotient and what is left.
limbStep(r, l, b) ==
    LET s1 == digitStep(r, l[1], b)
        s2 == digitStep(s1.r, l[2], b)
        s3 == digitStep(s2.r, l[3], b)
        s4 == digitStep(s3.r, l[4], b)
    IN  [q |-> <<s1.d, s2.d, s3.d, s4.d>>, r |-> s4.r]

\* [q, r]: the quotient and the remainder of the number with the digits of q
\* followed by those of a, once r is what the digits of q have left.  a has
\* a multiple of four digits.
RECURSIVE divFrom(_, _, _, _)
divStep(rest, b, s, q) ==
    IF q = <<>> THEN divFrom(rest, b, s.r, Norm(s.q))
    ELSE divFrom(rest, b, s.r, q \o s.q)

divFrom(a, b, r, q) ==
    IF a = <<>> THEN [q |-> q, r |-> r]
    ELSE divStep(Drop(a, 4), b, limbStep(r, Take(a, 4), b), q)

\* a \div b and a % b for b > 0: [q, r]
BigDivMod(a, b) ==
    divFrom([i \in 1..((4 - (Len(a) % 4)) % 4) |-> 0] \o a, b, <<>>, <<>>)

\* 1<<53, 1<<69 and 1<<120
Two53 == <<9, 0, 0, 7, 1, 9, 9, 2, 5, 4, 7, 4, 0, 9, 9, 2>>
Two69 == <<5, 9, 0, 2, 9, 5, 8, 1, 0, 3, 5, 8, 7, 0, 5, 6, 5, 1, 7, 1, 2>>
Two120 ==
    <<1, 3, 2, 9, 2, 2, 7, 9, 9, 5, 7, 8, 4, 9, 1, 5, 8, 7, 2, 9, 0, 3, 8, 0,
      7, 0, 6, 0, 2, 8, 0, 3, 4, 4, 5, 7, 6>>

\* float64 values that are not negative: [m, e] stands for m * 2^e, with
\* m <= 1<<53, and PosInf for +Inf.  A quotient is not rounded to the
\* subnormal numbers where it falls below the normal ones: the product it
\* is a factor of is below 1 then, and uint64() makes 0 of it either way.
\*
\* The float64 nearest to (x + t) * 2^e, ties to even, where 0 <= t < 1 and
\* sticky says whether t > 0.  With sticky set x is at least 1<<53, so that
\* a bit is shifted out.  Bits are shifted out 16 at a time while that
\* leaves more than 53 of them; the last n of them go at once.
RECURSIVE roundFloat64(_, _, _)
roundFloat64(x, e, sticky) ==
    IF ~BigLess(x, Two69)
    THEN roundFloat64(DivSmall(x, 2^16), e + 16,
                      sticky \/ ModSmall(x, 2^16) # 0)
    ELSE LET n    == CHOOSE i \in 0..16 :
                         /\ BigLess(x, BigMul(Two53, 2^i))
                         /\ i > 0 => ~BigLess(x, BigMul(Two53, 2^(i - 1)))
             q    == DivSmall(x, 2^n)
             r    == ModSmall(x, 2^n)
             half == 2^(n - 1)
             up   == /\ n > 0
                     /\ \/ r > half
                        \/ r = half /\ (sticky \/ ModSmall(q, 2) = 1)
         IN  [m |-> IF up THEN BigAdd(q, <<1>>) ELSE q, e |-> e + n]

\* float64(f) for a uint64 f
float64Of(f) == roundFloat64(f, 0, FALSE)

\* +Inf, and the float64 of a rounded x of 53 bits: +Inf from 1<<1024 on
PosInf == [m |-> <<>>, e |-> 1024]
overflowed(x) == IF x.e + (IF x.m = Two53 THEN 1 ELSE 0) >= 972 THEN PosInf ELSE x

\* scale *= 10 in float64
scaleTimes10(scale) == overflowed(roundFloat64(BigMul(scale.m, 10), scale.e, FALSE))

\* scale multiplied k times by 10
RECURSIVE scaleFrom(_, _)
scaleFrom(scale, k) ==
    IF k = 0 \/ scale = PosInf THEN scale ELSE scaleFrom(scaleTimes10(scale), k - 1)

\* The scale leadingFraction returns for k digits counted: 1 multiplied k
\* times by 10 in float64, which is 10^k up to k = 22, the rounded products
\* after that and +Inf from k = 309 on.
scaleOf(k) == scaleFrom([m |-> <<1>>, e |-> 0], k)

\* The float64 nearest to the quotient qr = [q, r] of a division of a number
\* of more than 53 bits scaled by 2^e.
quoRounded(qr, e) == roundFloat64(qr.q, e, qr.r # <<>>)

\* float64(unit) / scale for a unit below 1<<53: the quotient of
\* unit * 2^120 by the mantissa of scale has more than 53 bits.
float64Quo(unit, scale) ==
    IF scale = PosInf THEN [m |-> <<>>, e |-> 0]
    ELSE quoRounded(BigDivMod(BigTimes(Two120, unit), scale.m), -120 - scale.e)

\* a * b in float64
float64Mul(a, b) == roundFloat64(BigTimes(a.m, b.m), a.e + b.e, FALSE)

\* uint64(x) for a float64 x = m * 2^e below 1<<64: the fraction is dropped.
RECURSIVE floatToUint(_, _)
floatToUint(m, e) ==
    IF m = <<>> \/ e = 0 THEN m
    ELSE IF e > 16 THEN floatToUint(BigMul(m, 2^16), e - 16)
    ELSE IF e > 0 THEN BigMul(m, 2^e)
    ELSE IF e < -16 THEN floatToUint(DivSmall(m, 2^16), e + 16)
    ELSE DivSmall(m, 2^(-e))

uint64Of(x) == floatToUint(x.m, x.e)

----------------------------------------------------------------------------
\* Strings (packages strings, unicode/utf8, path/filepath, strconv, net/url)

\* strings.Index(s, c) + 1 for a one-byte c: 0 when c is not in s.
IndexOf(s, c) ==
    IF \E i \in DOMAIN s : s[i] = c
    THEN CHOOSE i \in DOMAIN s : s[i] = c /\ \A j \in 1..(i - 1) : s[j] # c
    ELSE 0

Contains(s, c) == IndexOf(s, c) # 0

HasSuffix(s, suf) ==
    Len(s) >= Len(suf) /\ SubSeq(s, Len(s) - Len(suf) + 1, Len(s)) = suf

TrimSuffix(s, suf) == IF HasSuffix(s, suf) THEN Take(s, Len(s) - Len(suf)) ELSE s

\* utf8.DecodeRuneInString: the first rune of s and its width; r = -1 with
\* width 1 for a byte that does not start a well-formed encoding.
DecodeRune(s) ==
    LET b1 == s[1]
        cont(i, lo, hi) == Len(s) >= i /\ s[i] \in lo..hi
        lo2 == IF b1 = 224 THEN 160 ELSE IF b1 = 240 THEN 144 ELSE 128
        hi2 == IF b1 = 237 THEN 159 ELSE IF b1 = 244 THEN 143 ELSE 191
    IN  IF b1 < 128 THEN [r |-> b1, w |-> 1]
        ELSE IF b1 \in 194..223 /\ cont(2, 128, 191)
        THEN [r |-> (b1 - 192) * 64 + (s[2] - 128), w |-> 2]
        ELSE IF b1 \in 224..239 /\ cont(2, lo2, hi2) /\ cont(3, 128, 191)
        THEN [r |-> (b1 - 224) * 4096 + (s[2] - 128) * 64 + (s[3] - 128),
              w |-> 3]
        ELSE IF /\ b1 \in 240..244 /\ cont(2, lo2, hi2)
                /\ cont(3, 128, 191) /\ cont(4, 128, 191)
        THEN [r |-> (b1 - 240) * 262144 + (s[2] - 128) * 4096
                       + (s[3] - 128) * 64 + (s[4] - 128),
              w |-> 4]
        ELSE [r |-> -1, w |-> 1]

\* utf8.AppendRune
EncodeRune(r) ==
    IF r < 128 THEN <<r>>
    ELSE IF r < 2048 THEN <<192 + (r \div 64), 128 + (r % 64)>>
    ELSE IF r < 65536
    THEN <<224 + (r \div 4096), 128 + ((r \div 64) % 64), 128 + (r % 64)>>
    ELSE <<240 + (r \div 262144), 128 + ((r \div 4096) % 64),
           128 + ((r \div 64) % 64), 128 + (r % 64)>>

\* U+FFFD
RuneError == 65533

\* unicode.CaseRanges (Unicode 13.0.0) as far as the lower-case forms go:
\* <<lo, hi, step, delta>> says that each of the runes lo, lo + step, ..., hi
\* has the lower-case form r + delta.  No rune is in two entries.
CaseRanges ==
    <<<<65, 90, 1, 32>>, <<192, 214, 1, 32>>, <<216, 222, 1, 32>>,
      <<256, 302, 2, 1>>, <<304, 304, 1, -199>>, <<306, 310, 2, 1>>,
      <<313, 327, 2, 1>>, <<330, 374, 2, 1>>, <<376, 376, 1, -121>>,
      <<377, 381, 2, 1>>, <<385, 385, 1, 210>>, <<386, 388, 2, 1>>,
      <<390, 390, 1, 206>>, <<391, 391, 1, 1>>, <<393, 394, 1, 205>>,
      <<395, 395, 1, 1>>, <<398, 398, 1, 79>>, <<399, 399, 1, 202>>,
      <<400, 400, 1, 203>>, <<401, 401, 1, 1>>, <<403, 403, 1, 205>>,
      <<404, 404, 1, 207>>, <<406, 406, 1, 211>>, <<407, 407, 1, 209>>,
      <<408, 408, 1, 1>>, <<412, 412, 1, 211>>, <<413, 413, 1, 213>>,
      <<415, 415, 1, 214>>, <<416, 420, 2, 1>>, <<422, 422, 1, 218>>,
      <<423, 423, 1, 1>>, <<425, 425, 1, 218>>, <<428, 428, 1, 1>>,
      <<430, 430, 1, 218>>, <<431, 431, 1, 1>>, <<433, 434, 1, 217>>,
      <<435, 437, 2, 1>>, <<439, 439, 1, 219>>, <<440, 440, 1, 1>>,
      <<444, 444, 1, 1>>, <<452, 452, 1, 2>>, <<453, 453, 1, 1>>,
      <<455, 455, 1, 2>>, <<456, 456, 1, 1>>, <<458, 458, 1, 2>>,
      <<459, 475, 2, 1>>, <<478, 494, 2, 1>>, <<497, 497, 1, 2>>,
      <<498, 500, 2, 1>>, <<502, 502, 1, -97>>, <<503, 503, 1, -56>>,
      <<504, 542, 2, 1>>, <<544, 544, 1, -130>>, <<546, 562, 2, 1>>,
      <<570, 570, 1, 10795>>, <<571, 571, 1, 1>>, <<573, 573, 1, -163>>,
      <<574, 574, 1, 10792>>, <<577, 577, 1, 1>>, <<579, 579, 1, -195>>,
      <<580, 580, 1, 69>>, <<581, 581, 1, 71>>, <<582, 590, 2, 1>>,
      <<880, 882, 2, 1>>, <<886, 886, 1, 1>>, <<895, 895, 1, 116>>,
      <<902, 902, 1, 38>>, <<904, 906, 1, 37>>, <<908, 908, 1, 64>>,
      <<910, 911, 1, 63>>, <<913, 929, 1, 32>>, <<931, 939, 1, 32>>,
      <<975, 975, 1, 8>>, <<984, 1006, 2, 1>>, <<1012, 1012, 1, -60>>,
      <<1015, 1015, 1, 1>>, <<1017, 1017, 1, -7>>, <<1018, 1018, 1, 1>>,
      <<1021, 1023, 1, -130>>, <<1024, 1039, 1, 80>>, <<1040, 1071, 1, 32>>,
      <<1120, 1152, 2, 1>>, <<1162, 1214, 2, 1>>, <<1216, 1216, 1, 15>>,
      <<1217, 1229, 2, 1>>, <<1232, 1326, 2, 1>>, <<1329, 1366, 1, 48>>,
      <<4256, 4293, 1, 7264>>, <<4295, 4295, 1, 7264>>,
      <<4301, 4301, 1, 7264>>, <<5024, 5103, 1, 38864>>,
      <<5104, 5109, 1, 8>>, <<7312, 7354, 1, -3008>>,
      <<7357, 7359, 1, -3008>>, <<7680, 7828, 2, 1>>,
      <<7838, 7838, 1, -7615>>, <<7840, 7934, 2, 1>>, <<7944, 7951, 1, -8>>,
      <<7960, 7965, 1, -8>>, <<7976, 7983, 1, -8>>, <<7992, 7999, 1, -8>>,
      <<8008, 8013, 1, -8>>, <<8025, 8025, 1, -8>>, <<8027, 8027, 1, -8>>,
      <<8029, 8029, 1, -8>>, <<8031, 8031, 1, -8>>, <<8040, 8047, 1, -8>>,
      <<8072, 8079, 1, -8>>, <<8088, 8095, 1, -8>>, <<8104, 8111, 1, -8>>,
      <<8120, 8121, 1, -8>>, <<8122, 8123, 1, -74>>, <<8124, 8124, 1, -9>>,
      <<8136, 8139, 1, -86>>, <<8140, 8140, 1, -9>>, <<8152, 8153, 1, -8>>,
      <<8154, 8155, 1, -100>>, <<8168, 8169, 1, -8>>,
      <<8170, 8171, 1, -112>>, <<8172, 8172, 1, -7>>,
      <<8184, 8185, 1, -128>>, <<8186, 8187, 1, -126>>,
      <<8188, 8188, 1, -9>>, <<8486, 8486, 1, -7517>>,
      <<8490, 8490, 1, -8383>>, <<8491, 8491, 1, -8262>>,
      <<8498, 8498, 1, 28>>, <<8544, 8559, 1, 16>>, <<8579, 8579, 1, 1>>,
      <<9398, 9423, 1, 26>>, <<11264, 11310, 1, 48>>, <<11360, 11360, 1, 1>>,
      <<11362, 11362, 1, -10743>>, <<11363, 11363, 1, -3814>>,
      <<11364, 11364, 1, -10727>>, <<11367, 11371, 2, 1>>,
      <<11373, 11373, 1, -10780>>, <<11374, 11374, 1, -10749>>,
      <<11375, 11375, 1, -10783>>, <<11376, 11376, 1, -10782>>,
      <<11378, 11378, 1, 1>>, <<11381, 11381, 1, 1>>,
      <<11390, 11391, 1, -10815>>, <<11392, 11490, 2, 1>>,
      <<11499, 11501, 2, 1>>, <<11506, 11506, 1, 1>>, <<42560, 42604, 2, 1>>,
      <<42624, 42650, 2, 1>>, <<42786, 42798, 2, 1>>, <<42802, 42862, 2, 1>>,
      <<42873, 42875, 2, 1>>, <<42877, 42877, 1, -35332>>,
      <<42878, 42886, 2, 1>>, <<42891, 42891, 1, 1>>,
      <<42893, 42893, 1, -42280>>, <<42896, 42898, 2, 1>>,
      <<42902, 42920, 2, 1>>, <<42922, 42922, 1, -42308>>,
      <<42923, 42923, 1, -42319>>, <<42924, 42924, 1, -42315>>,
      <<42925, 42925, 1, -42305>>, <<42926, 42926, 1, -42308>>,
      <<42928, 42928, 1, -42258>>, <<42929, 42929, 1, -42282>>,
      <<42930, 42930, 1, -42261>>, <<42931, 42931, 1, 928>>,
      <<42932, 42942, 2, 1>>, <<42946, 42946, 1, 1>>,
      <<42948, 42948, 1, -48>>, <<42949, 42949, 1, -42307>>,
      <<42950, 42950, 1, -35384>>, <<42951, 42953, 2, 1>>,
      <<42997, 42997, 1, 1>>, <<65313, 65338, 1, 32>>,
      <<66560, 66599, 1, 40>>, <<66736, 66771, 1, 40>>,
      <<68736, 68786, 1, 64>>, <<71840, 71871, 1, 32>>,
      <<93760, 93791, 1, 32>>, <<125184, 125217, 1, 34>>>>

\* unicode.ToLower: the lower-case form of the rune r, or r when it has none.
unicodeToLower(r) ==
    LET covers(c) == r \in c[1]..c[2] /\ (r - c[1]) % c[3] = 0
    IN  IF \E i \in DOMAIN CaseRanges : covers(CaseRanges[i])
        THEN r + CaseRanges[CHOOSE i \in DOMAIN CaseRanges :
                                covers(CaseRanges[i])][4]
        ELSE r

\* strings.Map(unicode.ToLower, s): rune by rune; a byte that is not part of
\* a well-formed encoding becomes U+FFFD.
RECURSIVE mapToLower(_)
mapToLower(s) ==
    IF s = <<>> THEN <<>>
    ELSE LET d == DecodeRune(s)
         IN  EncodeRune(IF d.r < 0 THEN RuneError ELSE unicodeToLower(d.r))
             \o mapToLower(Drop(s, d.w))

\* strings.ToLower: byte by byte on an ASCII string, else rune by rune.
ToLower(s) ==
    IF \A i \in DOMAIN s : s[i] < 128
    THEN [i \in DOMAIN s |-> IF s[i] \in 65..90 THEN s[i] + 32 ELSE s[i]]
    ELSE mapToLower(s)

\* strings.Split(s, c) for a one-byte c.
RECURSIVE Split(_, _)
Split(s, c) ==
    IF IndexOf(s, c) = 0 THEN <<s>>
    ELSE <<Take(s, IndexOf(s, c) - 1)>> \o Split(Drop(s, IndexOf(s, c)), c)

\* strings.Join(items, c) for a one-byte c.
RECURSIVE Join(_, _)
Join(items, c) ==
    IF items = <<>> THEN <<>>
    ELSE IF Len(items) = 1 THEN items[1]
    ELSE items[1] \o <<c>> \o Join(Tail(items), c)

\* filepath.Ext: the suffix from the last dot of the last path element on.
Ext(path) ==
    LET dots == {i \in DOMAIN path :
                   path[i] = Ch.dot /\ \A j \in i..Len(path) : path[j] # Ch.slash}
    IN  IF dots = {} THEN <<>>
        ELSE Drop(path, (CHOOSE i \in dots : \A j \in dots : j <= i) - 1)

\* The loop of filepath.Clean over the elements of a path: empty elements
\* and "." are dropped, ".." takes the element before it away, and is
\* dropped at the root and kept at the start of a relative path.
RECURSIVE cleanElements(_, _, _)
cleanElements(items, rooted, kept) ==
    IF items = <<>> THEN kept
    ELSE LET x    == items[1]
             rest == Tail(items)
         IN  IF x = <<>> \/ x = <<Ch.dot>> THEN cleanElements(rest, rooted, kept)
             ELSE IF x # <<Ch.dot, Ch.dot>>
             THEN cleanElements(rest, rooted, Append(kept, x))
             ELSE IF kept # <<>> /\ Last(kept) # <<Ch.dot, Ch.dot>>
             THEN cleanElements(rest, rooted, Take(kept, Len(kept) - 1))
             ELSE IF rooted THEN cleanElements(rest, rooted, kept)
             ELSE cleanElements(rest, rooted, Append(kept, x))

\* filepath.Clean, with '/' as the separator.
Clean(path) ==
    IF path = <<>> THEN <<Ch.dot>>
    ELSE LET rooted == path[1] = Ch.slash
             out    == (IF rooted THEN <<Ch.slash>> ELSE <<>>)
                       \o Join(cleanElements(Split(path, Ch.slash), rooted, <<>>),
                               Ch.slash)
         IN  IF out = <<>> THEN <<Ch.dot>> ELSE out

\* filepath.Join(a, b): empty elements are ignored, the result is cleaned.
FilepathJoin(a, b) ==
    IF a = <<>> /\ b = <<>> THEN <<>>
    ELSE IF a = <<>> THEN Clean(b)
    ELSE IF b = <<>> THEN Clean(a)
    ELSE Clean(a \o <<Ch.slash>> \o b)

IsDigit(c) == c \in 48..57

\* strconv.ParseInt(item, 10, 64) returns no error: an optional sign, then
\* at least one digit and digits only, writing a number of the int64 range.
ParseIntOK(item) ==
    LET signed == item # <<>> /\ item[1] \in {Ch.plus, Ch.minus}
        neg    == signed /\ item[1] = Ch.minus
        digits == IF signed THEN Tail(item) ELSE item
    IN  /\ digits # <<>>
        /\ \A i \in DOMAIN digits : IsDigit(digits[i])
        /\ ~BigLess(IF neg THEN Two63 ELSE MaxInt64, DigitsOf(digits))

\* The value of a hexadecimal digit, -1 for any other byte.
HexVal(c) ==
    IF c \in 48..57 THEN c - 48
    ELSE IF c \in 97..102 THEN c - 87
    ELSE IF c \in 65..70 THEN c - 55
    ELSE -1

\* url.PathUnescape: every %XX becomes the byte XX; a % that is not followed
\* by two hexadecimal digits is an error.
RECURSIVE PathUnescape(_)
PathUnescape(s) ==
    IF s = <<>> THEN [ok |-> TRUE, s |-> <<>>]
    ELSE IF s[1] # Ch.pct
    THEN LET r == PathUnescape(Tail(s))
         IN  [ok |-> r.ok, s |-> <<s[1]>> \o r.s]
    ELSE IF Len(s) < 3 \/ HexVal(s[2]) < 0 \/ HexVal(s[3]) < 0
    THEN [ok |-> FALSE, s |-> <<>>]
    ELSE LET r == PathUnescape(Drop(s, 3))
         IN  [ok |-> r.ok, s |-> <<16 * HexVal(s[2]) + HexVal(s[3])>> \o r.s]

\* The loop of getDefaultFilename over the '_'-separated parts: empty parts
\* and parts that parse as a number are left out.
keptItems(nameItems) ==
    SelectSeq(nameItems, LAMBDA item : item # <<>> /\ ~ParseIntOK(item))

\* The name with the extension ".pdf" it is made to end with.
ensurePdf(filename) ==
    IF ~HasSuffix(ToLower(filename), DotPdf) THEN filename \o DotPdf ELSE filename

\* The name, or "download_<now>.pdf" in the place of no name.
avoidEmpty(filename, now) ==
    IF filename = <<>> \/ filename = DotPdf
    THEN Download \o <<Ch.under>> \o now \o DotPdf
    ELSE filename

\* url.PathUnescape(filename), or the name as it is when that fails.
unescapedName(filename) ==
    IF PathUnescape(filename).ok THEN PathUnescape(filename).s ELSE filename

\* The name without the numbers among its '_'-separated parts.
withoutNumbers(filename) ==
    IF Contains(filename, Ch.under)
    THEN Join(keptItems(Split(TrimSuffix(filename, Ext(filename)), Ch.under)),
              Ch.under) \o Ext(filename)
    ELSE filename

\* getDefaultFilename; now is time.Now().Unix() in decimal.
getDefaultFilename(fileUrl, now) ==
    LET segments == Split(fileUrl, Ch.slash)
        last     == segments[Len(segments)]
        idx      == IndexOf(last, Ch.query)
        cut      == IF idx # 0 THEN Take(last, idx - 1) ELSE last
    IN  withoutNumbers(unescapedName(avoidEmpty(ensurePdf(cut), now)))

----------------------------------------------------------------------------
\* Configuration (config.go)

\* A time.Duration: a number of nanoseconds, [neg, mag] with mag its absolute
\* value; zero is not negative.
Dur(neg, mag) == [neg |-> neg /\ mag # <<>>, mag |-> mag]

Positive(d) == ~d.neg /\ d.mag # <<>>

\* 30 * time.Second
DefaultTimeout == Dur(FALSE, <<3, 0, 0, 0, 0, 0, 0, 0, 0, 0, 0>>)

\* "30s" and "3s"
ThirtySeconds == <<51, 48, 115>>
ThreeSeconds == <<51, 115>>

\* "00000008699999999999998": a fraction of 23 digits, for which the scale
\* is not a power of ten any more.
LongFraction ==
    <<48, 48, 48, 48, 48, 48, 48, 56, 54, 57, 57, 57, 57, 57, 57, 57, 57, 57, 57,
      57, 57, 57, 56>>

\* The pieces Timeout strings are made of: "3", "0", ".", "s", "-", "n",
\* "9223372037" (as many seconds are more than a Duration holds),
\* "99999999999999999" (a fraction of more digits than a float64 holds) and
\* LongFraction.
TimeoutTokens == {<<51>>, <<48>>, <<Ch.dot>>, <<115>>, <<Ch.minus>>, <<110>>,
                  <<57, 50, 50, 51, 51, 55, 50, 48, 51, 55>>,
                  [i \in 1..17 |-> 57], LongFraction}

\* unitMap of package time: [ok, unit], the unit named u in nanoseconds; ok
\* is FALSE for a string that names no unit.  The units are "ns", "us",
\* "µs" (U+00B5), "μs" (U+03BC), "ms", "s", "m" and "h".
unitMap(u) ==
    IF u = <<110, 115>> THEN [ok |-> TRUE, unit |-> <<1>>]
    ELSE IF u \in {<<117, 115>>, <<194, 181, 115>>, <<206, 188, 115>>}
    THEN [ok |-> TRUE, unit |-> BigShift(<<1>>, 3)]
    ELSE IF u = <<109, 115>> THEN [ok |-> TRUE, unit |-> BigShift(<<1>>, 6)]
    ELSE IF u = <<115>> THEN [ok |-> TRUE, unit |-> BigShift(<<1>>, 9)]
    ELSE IF u = <<109>> THEN [ok |-> TRUE, unit |-> BigShift(<<6>>, 10)]
    ELSE IF u = <<104>> THEN [ok |-> TRUE, unit |-> BigShift(<<3, 6>>, 11)]
    ELSE [ok |-> FALSE, unit |-> <<>>]

\* The number of leading decimal digits of s.
RECURSIVE LeadDigits(_)
LeadDigits(s) ==
    IF s = <<>> \/ ~IsDigit(s[1]) THEN 0 ELSE 1 + LeadDigits(Tail(s))

\* The number of leading bytes of s that are neither a digit nor a dot.
RECURSIVE UnitLen(_)
UnitLen(s) ==
    IF s = <<>> \/ IsDigit(s[1]) \/ s[1] = Ch.dot THEN 0 ELSE 1 + UnitLen(Tail(s))

\* leadingInt of package time: [ok, x, rem], the number x written by the
\* leading digits of s and the rest of s; ok is FALSE for a number above
\* 1<<63.
leadingInt(s) ==
    [ok  |-> ~BigLess(Two63, DigitsOf(Take(s, LeadDigits(s)))),
     x   |-> DigitsOf(Take(s, LeadDigits(s))),
     rem |-> Drop(s, LeadDigits(s))]

\* The digits of the fraction count as long as the number they write stays
\* within 1<<63; the digits after that are skipped.  The number of digits
\* that count, from k on.
RECURSIVE fractionDigits(_, _)
fractionDigits(ds, k) ==
    IF k < Len(ds) /\ ~BigLess(Two63, DigitsOf(Take(ds, k + 1)))
    THEN fractionDigits(ds, k + 1)
    ELSE k

\* leadingFraction of package time: [x, scale, rem], the fraction x / scale
\* written by the leading digits of s, scale being multiplied by 10 for each
\* digit that counts (leading zeros count), and the rest of s.
leadingFraction(s) ==
    [x     |-> DigitsOf(Take(s, fractionDigits(Take(s, LeadDigits(s)), 0))),
     scale |-> scaleOf(fractionDigits(Take(s, LeadDigits(s)), 0)),
     rem   |-> Drop(s, LeadDigits(s))]

\* uint64(float64(f) * (float64(unit) / scale)), for f > 0
fractionNanos(f, scale, unit) ==
    IF f = <<>> THEN <<>>
    ELSE uint64Of(float64Mul(float64Of(f), float64Quo(unit, scale)))

\* [ok, v]: ok is FALSE for a v above 1<<63.
within63(v) == [ok |-> ~BigLess(Two63, v), v |-> v]

\* The nanoseconds of a component of v units and the fraction f / scale of
\* a unit: [ok, v].  v > 1<<63 / unit is an overflow, and so is a sum above
\* 1<<63.
componentNanos(v, f, scale, unit) ==
    IF BigLess(Two63, BigTimes(v, unit)) THEN [ok |-> FALSE, v |-> <<>>]
    ELSE within63(BigAdd(BigTimes(v, unit), fractionNanos(f, scale, unit)))

\* a + b in uint64 for a and b up to 1<<63: the sum wraps at 1<<64.
uint64Add(a, b) == IF BigAdd(a, b) = BigMul(Two63, 2) THEN <<>> ELSE BigAdd(a, b)

\* The loop of time.ParseDuration over the components "<int>[.<frac>]<unit>"
\* of an unsigned duration, d being the sum of the components before s:
\* [ok, d].  The sum is a uint64: it wraps at 1<<64, which two components of
\* 1<<63 nanoseconds reach.
RECURSIVE parseComponents(_, _)

\* d += v for the component c = [ok, v], and the components of rem.
addComponent(d, c, rem) ==
    IF ~c.ok THEN [ok |-> FALSE, d |-> <<>>]
    ELSE IF BigLess(Two63, uint64Add(d, c.v)) THEN [ok |-> FALSE, d |-> <<>>]
    ELSE parseComponents(rem, uint64Add(d, c.v))

\* The unit of a component with the number v and the fraction fr, which
\* s, of i bytes of unit, follows.
parseUnit(d, v, fr, s, i) ==
    IF i = 0 \/ ~unitMap(Take(s, i)).ok THEN [ok |-> FALSE, d |-> <<>>]
    ELSE addComponent(d, componentNanos(v, fr.x, fr.scale, unitMap(Take(s, i)).unit),
                      Drop(s, i))

\* The fraction of a component with the number v, which s follows; pre
\* says whether the number has digits.
parseFraction(d, pre, v, s, fr) ==
    IF ~pre /\ Len(fr.rem) = Len(s) THEN [ok |-> FALSE, d |-> <<>>]
    ELSE parseUnit(d, v, fr, fr.rem, UnitLen(fr.rem))

\* The component at the head of s, li being leadingInt(s).
parseNumber(d, s, li) ==
    IF ~li.ok THEN [ok |-> FALSE, d |-> <<>>]
    ELSE IF li.rem # <<>> /\ li.rem[1] = Ch.dot
    THEN parseFraction(d, Len(li.rem) # Len(s), li.x, Tail(li.rem),
                       leadingFraction(Tail(li.rem)))
    ELSE parseFraction(d, Len(li.rem) # Len(s), li.x, li.rem,
                       [x |-> <<>>, scale |-> scaleOf(0), rem |-> li.rem])

parseComponents(s, d) ==
    IF s = <<>> THEN [ok |-> TRUE, d |-> d]
    ELSE IF ~(s[1] = Ch.dot \/ IsDigit(s[1])) THEN [ok |-> FALSE, d |-> <<>>]
    ELSE parseNumber(d, s, leadingInt(s))

\* The end of time.ParseDuration: the Duration of the sum r = [ok, d] of the
\* components, with its sign.
signedDuration(neg, r) ==
    IF ~r.ok THEN [ok |-> FALSE, d |-> Dur(FALSE, <<>>)]
    ELSE IF neg THEN [ok |-> TRUE, d |-> Dur(TRUE, r.d)]
    ELSE IF BigLess(MaxInt64, r.d) THEN [ok |-> FALSE, d |-> Dur(FALSE, <<>>)]
    ELSE [ok |-> TRUE, d |-> Dur(FALSE, r.d)]

\* time.ParseDuration: [ok, d].
ParseDuration(s) ==
    LET signed == s # <<>> /\ s[1] \in {Ch.minus, Ch.plus}
        neg    == signed /\ s[1] = Ch.minus
        body   == IF signed THEN Tail(s) ELSE s
    IN  IF body = <<48>> THEN [ok |-> TRUE, d |-> Dur(FALSE, <<>>)]
        ELSE IF body = <<>> THEN [ok |-> FALSE, d |-> Dur(FALSE, <<>>)]
        ELSE signedDuration(neg, parseComponents(body, <<>>))

\* GetTimeoutDuration answering zero for a Timeout that does not parse.
GetTimeoutDurationZero(dc) == ParseDuration(dc.Timeout).d

\* The Duration of GetTimeoutDuration for the answer r = [ok, d] of
\* time.ParseDuration.
durationOrDefault(r) == IF ~r.ok THEN DefaultTimeout ELSE r.d

\* Config.GetTimeoutDuration
GetTimeoutDuration(dc) == durationOrDefault(ParseDuration(dc.Timeout))

\* The strings of 0 to n pieces out of the set tokens.
RECURSIVE StringsOfLen(_, _)
StringsOfLen(tokens, n) ==
    IF n = 0 THEN {<<>>}
    ELSE LET shorter == StringsOfLen(tokens, n - 1)
         IN  shorter \cup {u \o k : u \in shorter, k \in tokens}

Timeouts == StringsOfLen(TimeoutTokens, MaxTimeoutLen)

\* Config.Copy leaving the OutputPath field out.
CopyWithoutOutputPath(dc) ==
    [URL |-> dc.URL, OutputDir |-> dc.OutputDir, OutputPath |-> <<>>,
     Timeout |-> dc.Timeout, ChunkSize |-> dc.ChunkSize, Headers |-> dc.Headers]

\* Config.Copy
Copy(dc) ==
    [URL |-> dc.URL, OutputDir |-> dc.OutputDir, OutputPath |-> dc.OutputPath,
     Timeout |-> dc.Timeout, ChunkSize |-> dc.ChunkSize, Headers |-> dc.Headers]

\* Header maps are functions from keys to values.
\*
\* The header field names "Origin", "Referer", "Priority" and "User-Agent" of
\* the defaults, and "referer" and "x-token"
Origin == <<79, 114, 105, 103, 105, 110>>
Referer == <<82, 101, 102, 101, 114, 101, 114>>
Priority == <<80, 114, 105, 111, 114, 105, 116, 121>>
UserAgent == <<85, 115, 101, 114, 45, 65, 103, 101, 110, 116>>
LowerReferer == <<114, 101, 102, 101, 114, 101, 114>>
LowerXToken == <<120, 45, 116, 111, 107, 101, 110>>

\* getDefaultHttpHeaders
getDefaultHttpHeaders ==
    [k \in {Origin, Referer, Priority, UserAgent} |->
        IF k = Origin THEN "https://basic.smartedu.cn"
        ELSE IF k = Referer THEN "https://basic.smartedu.cn/"
        ELSE IF k = Priority THEN "u=1, i"
        ELSE "Mozilla/5.0 (Windows NT 10.0; Win64; x64) AppleWebKit/537.36 (KHTML, like Gecko) Chrome/142.0.0.0 Safari/537.36"]

\* The header keys and values a caller may configure: the keys "Referer" and
\* "referer" are two keys of a Go map and one header field.
CallerKeys == {Referer, LowerReferer, LowerXToken}
CallerValues == {"", "v", "w"}
HeaderSets == UNION {[K -> CallerValues] : K \in SUBSET CallerKeys}

\* textproto.validHeaderFieldByte: the bytes of a token, which are the
\* letters, the digits and ! # $ % & ' * + - . ^ _ ` | ~
validHeaderFieldByte(c) ==
    \/ c \in 48..57 \/ c \in 65..90 \/ c \in 97..122
    \/ c \in {33, 35, 36, 37, 38, 39, 42, 43, 45, 46, 94, 95, 96, 124, 126}

\* textproto.CanonicalMIMEHeaderKey: a key with a byte that is not a token
\* byte is left as it is; in any other key the first letter and each letter
\* after a '-' are made upper case and the other letters lower case.
CanonicalKey(k) ==
    IF \E i \in DOMAIN k : ~validHeaderFieldByte(k[i]) THEN k
    ELSE [i \in DOMAIN k |->
             LET upper == i = 1 \/ k[i - 1] = Ch.minus
             IN  IF upper /\ k[i] \in 97..122 THEN k[i] - 32
                 ELSE IF ~upper /\ k[i] \in 65..90 THEN k[i] + 32
                 ELSE k[i]]

\* http.Header.Set and http.Header.Get
HeaderSet(h, k, v) ==
    [x \in DOMAIN h \cup {CanonicalKey(k)} |-> IF x = CanonicalKey(k) THEN v ELSE h[x]]
HeaderGet(h, k) == IF CanonicalKey(k) \in DOMAIN h THEN h[CanonicalKey(k)] ELSE ""

\* for k, v := range m { h.Set(k, v) } for the keys of m in the set keys: the
\* headers the loop may end with.  The order in which range goes over a map
\* is not fixed, and of two keys with the same canonical form the one that
\* comes last sets the value.
RECURSIVE setAll(_, _, _)
setAll(h, m, keys) ==
    IF keys = {} THEN {h}
    ELSE UNION {setAll(HeaderSet(h, k, m[k]), m, keys \ {k}) : k \in keys}

\* The loop over the default headers, in any order: a default is set where
\* req.Header.Get returns the empty string.
RECURSIVE setDefaults(_, _)
setDefaults(h, keys) ==
    IF keys = {} THEN {h}
    ELSE UNION {setDefaults(IF HeaderGet(h, k) = ""
                            THEN HeaderSet(h, k, getDefaultHttpHeaders[k])
                            ELSE h,
                            keys \ {k}) : k \in keys}

\* The headers the request may have, but for Range: those of the
\* configuration, then the defaults.
requestHeaders(headers) ==
    UNION {setDefaults(h, DOMAIN getDefaultHttpHeaders) :
              h \in setAll(<<>>, headers, DOMAIN headers)}

\* requestHeaders of the header maps a configuration may hold: the default
\* one and those a caller may configure.
RequestHeaders ==
    (getDefaultHttpHeaders :> requestHeaders(getDefaultHttpHeaders))
        @@ [h \in HeaderSets |-> requestHeaders(h)]

\* httpguts.ValidHeaderFieldName
validHeaderFieldName(k) == k # <<>> /\ \A i \in DOMAIN k : validHeaderFieldByte(k[i])

\* The loop of handleDownload copying ws.config.Headers into a new map.
copyHeaders(header) == [k \in DOMAIN header |-> header[k]]

NoConfig ==
    [URL |-> <<>>, OutputDir |-> <<>>, OutputPath |-> <<>>, Timeout |-> <<>>,
     ChunkSize |-> 0, Headers |-> <<>>]

\* 4 * 1024 * 1024
DefaultChunkSize == 4194304

\* os.Getwd(): "/w"
Getwd == <<Ch.slash, 119>>

\* getDefaultConfig
getDefaultConfig ==
    [URL |-> <<>>, OutputDir |-> FilepathJoin(Getwd, Output), OutputPath |-> <<>>,
     Timeout |-> ThirtySeconds, ChunkSize |-> DefaultChunkSize,
     Headers |-> getDefaultHttpHeaders]

\* The configuration the server is started with, but for its chunk size.
StartConfig(chunk) ==
    [URL |-> <<>>, OutputDir |-> Output, OutputPath |-> <<>>,
     Timeout |-> ThirtySeconds, ChunkSize |-> chunk,
     Headers |-> getDefaultHttpHeaders]

\* "/tmp" and "/tmp/test.pdf"
Tmp == <<47, 116, 109, 112>>
TestPdf == Tmp \o <<47, 116, 101, 115, 116>> \o DotPdf

\* A configuration with every field set, like the one TestConfig_Copy copies:
\* the URL "http://h/x.pdf", the directory "/tmp", the path "/tmp/test.pdf",
\* the timeout "3s", chunks of MaxChunk bytes and the header x-token.
TestConfig ==
    [URL |-> CHOOSE u \in URLs : TRUE, OutputDir |-> Tmp, OutputPath |-> TestPdf,
     Timeout |-> ThreeSeconds, ChunkSize |-> MaxChunk,
     Headers |-> [k \in {LowerXToken} |-> "v"]]

\* The configurations a save-config request may carry: those that differ
\* from the one the server is started with in one of Timeout, Headers, URL,
\* OutputDir, OutputPath and ChunkSize, and the one that differs in all.
Configs ==
    {[StartConfig(1) EXCEPT !.Timeout = x] : x \in Timeouts}
    \cup {[StartConfig(1) EXCEPT !.Headers = x] : x \in HeaderSets}
    \cup {[StartConfig(1) EXCEPT !.URL = x] : x \in URLs}
    \cup {[StartConfig(1) EXCEPT !.OutputDir = Tmp],
          [StartConfig(1) EXCEPT !.OutputPath = TestPdf]}
    \cup {StartConfig(c) : c \in ChunkSizes}
    \cup {TestConfig}

AllURLs == StringsOfLen(UrlTokens, MaxUrlLen)

\* downloadConfig.OutputPath as handleDownload sets it:
\* filepath.Join(OutputDir, getDefaultFilename(url)), or the configured path.
DestPath(cfg, url, now) ==
    IF cfg.OutputPath = <<>>
    THEN FilepathJoin(cfg.OutputDir, getDefaultFilename(url, now))
    ELSE cfg.OutputPath

\* URLs that do not get a transfer as far as a response: "/%" and
\* "http://h:x/", which http.NewRequestWithContext rejects, and "/x.pdf",
\* which has neither scheme nor host.
BadURLs == {<<Ch.slash, Ch.pct>>,
            <<104, 116, 116, 112, 58, 47, 47, 104, 58, 120, 47>>,
            <<Ch.slash, 120>> \o DotPdf}

\* The destinations of the transfers that are followed to their end.
Paths == {DestPath([OutputDir |-> d, OutputPath |-> p], u, now) :
             d \in {Output, Tmp, getDefaultConfig.OutputDir}, p \in {<<>>, TestPdf},
             u \in URLs \cup BadURLs, now \in Clock}

\* The part of s before the first c, and the part after it.
Before(s, c) == IF Contains(s, c) THEN Take(s, IndexOf(s, c) - 1) ELSE s
After(s, c) == IF Contains(s, c) THEN Drop(s, IndexOf(s, c)) ELSE <<>>

\* strings.LastIndex(s, c) + 1 for a one-byte c, and strings.HasPrefix
LastIndexOf(s, c) ==
    IF \E i \in DOMAIN s : s[i] = c
    THEN CHOOSE i \in DOMAIN s : s[i] = c /\ \A j \in (i + 1)..Len(s) : s[j] # c
    ELSE 0

HasPrefix(s, prefix) ==
    Len(s) >= Len(prefix) /\ SubSeq(s, 1, Len(prefix)) = prefix

IsLetter(c) == c \in 65..90 \/ c \in 97..122

\* net/url.stringContainsCTLByte
stringContainsCTLByte(s) == \E i \in DOMAIN s : s[i] < 32 \/ s[i] = 127

\* net/url.getScheme: [ok, scheme, rest].  The scheme ends at the first byte
\* that is no letter and, after the first byte, no digit and none of + - . ;
\* there is a scheme when that byte is a colon, which must not come first.
getScheme(rawURL) ==
    LET stops == {i \in DOMAIN rawURL :
                    /\ ~IsLetter(rawURL[i])
                    /\ ~(i > 1 /\ (IsDigit(rawURL[i])
                                   \/ rawURL[i] \in {Ch.plus, Ch.minus, Ch.dot}))}
        i     == CHOOSE x \in stops : \A y \in stops : x <= y
    IN  IF stops = {} \/ rawURL[i] # Ch.colon
        THEN [ok |-> TRUE, scheme |-> <<>>, rest |-> rawURL]
        ELSE IF i = 1 THEN [ok |-> FALSE, scheme |-> <<>>, rest |-> <<>>]
        ELSE [ok |-> TRUE, scheme |-> Take(rawURL, i - 1), rest |-> Drop(rawURL, i)]

\* net/url.shouldEscape(c, encodeHost): all bytes but the letters, the
\* digits and ! " $ & ' ( ) * + , - . : ; < = > [ ] _ ~
shouldEscapeHost(c) ==
    ~(\/ IsLetter(c) \/ IsDigit(c)
      \/ c \in {33, 34, 36, 38, 39, 40, 41, 42, 43, 44, 45, 46, 58, 59, 60, 61,
                62, 91, 93, 95, 126})

\* net/url.unescape(s, mode) returns no error.  Every '%' is followed by two
\* hexadecimal digits; in a host they write a byte >= 0x80 or are "25", in a
\* zone they are "25" or write a space or a byte a host may hold as it is;
\* and the other ASCII bytes of a host or a zone are bytes a host may hold.
validEscapes(s, mode) ==
    /\ \A i \in DOMAIN s :
          s[i] = Ch.pct =>
             /\ i + 2 <= Len(s)
             /\ HexVal(s[i + 1]) >= 0 /\ HexVal(s[i + 2]) >= 0
             /\ mode = "host" =>
                   HexVal(s[i + 1]) >= 8 \/ (s[i + 1] = 50 /\ s[i + 2] = 53)
             /\ mode = "zone" =>
                   \/ s[i + 1] = 50 /\ s[i + 2] = 53
                   \/ 16 * HexVal(s[i + 1]) + HexVal(s[i + 2]) = 32
                   \/ ~shouldEscapeHost(16 * HexVal(s[i + 1]) + HexVal(s[i + 2]))
    /\ mode \in {"host", "zone"} =>
          \A i \in DOMAIN s :
             s[i] # Ch.pct /\ s[i] < 128 => ~shouldEscapeHost(s[i])

\* net/url.validOptionalPort: nothing, or a colon and digits
validOptionalPort(port) ==
    port = <<>> \/ (port[1] = Ch.colon /\ \A i \in 2..Len(port) : IsDigit(port[i]))

\* The place of the first "%25" in s, 0 when there is none.
IndexOfZone(s) ==
    LET at(i) == i + 2 <= Len(s) /\ SubSeq(s, i, i + 2) = <<Ch.pct, 50, 53>>
    IN  IF \E i \in DOMAIN s : at(i)
        THEN CHOOSE i \in DOMAIN s : at(i) /\ \A j \in 1..(i - 1) : ~at(j)
        ELSE 0

\* net/url.parseHost returns no error: an IP literal in brackets with an
\* optional zone and port, or a name with an optional port.
parseHost(host) ==
    IF HasPrefix(host, <<Ch.lbrack>>)
    THEN LET i    == LastIndexOf(host, Ch.rbrack)
             zone == IndexOfZone(Take(host, i - 1))
         IN  /\ i # 0
             /\ validOptionalPort(Drop(host, i))
             /\ IF zone # 0
                THEN /\ validEscapes(Take(host, zone - 1), "host")
                     /\ validEscapes(SubSeq(host, zone, i - 1), "zone")
                     /\ validEscapes(Drop(host, i - 1), "host")
                ELSE validEscapes(host, "host")
    ELSE /\ LastIndexOf(host, Ch.colon) # 0 =>
               validOptionalPort(Drop(host, LastIndexOf(host, Ch.colon) - 1))
         /\ validEscapes(host, "host")

\* net/url.validUserinfo: letters, digits and - . _ : ~ ! $ & ' ( ) * + , ; = % @
validUserinfo(s) ==
    \A i \in DOMAIN s :
        \/ IsLetter(s[i]) \/ IsDigit(s[i])
        \/ s[i] \in {33, 36, 37, 38, 39, 40, 41, 42, 43, 44, 45, 46, 58, 59, 61,
                     64, 95, 126}

\* net/url.parseAuthority: [ok, host], the host being what follows the last
\* '@' (as it is written, with its escapes).
parseAuthority(authority) ==
    LET i        == LastIndexOf(authority, Ch.at)
        host     == Drop(authority, i)
        userinfo == Take(authority, i - 1)
    IN  IF ~parseHost(host) THEN [ok |-> FALSE, host |-> <<>>]
        ELSE IF i = 0 THEN [ok |-> TRUE, host |-> host]
        ELSE IF ~validUserinfo(userinfo) THEN [ok |-> FALSE, host |-> <<>>]
        ELSE IF ~Contains(userinfo, Ch.colon)
        THEN [ok |-> validEscapes(userinfo, "user"), host |-> host]
        ELSE [ok |-> /\ validEscapes(Before(userinfo, Ch.colon), "user")
                     /\ validEscapes(After(userinfo, Ch.colon), "user"),
              host |-> host]

\* net/url.parse(rawURL, false) of a URL without fragment: [ok, scheme, host].
parse(rawURL) ==
    LET sch       == getScheme(rawURL)
        rest      == Before(sch.rest, Ch.query)
        rooted    == HasPrefix(rest, <<Ch.slash>>)
        hasAuth   == /\ sch.scheme # <<>>
                        \/ ~HasPrefix(rest, <<Ch.slash, Ch.slash, Ch.slash>>)
                     /\ HasPrefix(rest, <<Ch.slash, Ch.slash>>)
        authority == Before(Drop(rest, 2), Ch.slash)
        auth      == parseAuthority(authority)
        path      == IF hasAuth THEN Drop(rest, 2 + Len(authority)) ELSE rest
        none      == [ok |-> FALSE, scheme |-> <<>>, host |-> <<>>]
    IN  IF stringContainsCTLByte(rawURL) THEN none
        ELSE IF rawURL = <<42>>
        THEN [ok |-> TRUE, scheme |-> <<>>, host |-> <<>>]
        ELSE IF ~sch.ok THEN none
        ELSE IF ~rooted /\ sch.scheme # <<>>
        THEN [ok |-> TRUE, scheme |-> ToLower(sch.scheme), host |-> <<>>]
        ELSE IF ~rooted /\ Contains(Before(rest, Ch.slash), Ch.colon) THEN none
        ELSE IF hasAuth /\ ~auth.ok THEN none
        ELSE IF ~validEscapes(path, "path") THEN none
        ELSE [ok |-> TRUE, scheme |-> ToLower(sch.scheme),
              host |-> IF hasAuth THEN auth.host ELSE <<>>]

\* net/url.URL.setFragment on the URL u = [ok, scheme, host] that parse
\* answers: the escapes of the fragment are checked.
setFragment(u, frag) ==
    IF ~u.ok THEN u ELSE [u EXCEPT !.ok = validEscapes(frag, "fragment")]

\* net/url.Parse: [ok, scheme, host].  The fragment is cut off first and its
\* escapes are checked last.
Parse(rawURL) == setFragment(parse(Before(rawURL, Ch.hash)), After(rawURL, Ch.hash))

\* http.NewRequestWithContext(ctx, "GET", url, nil) returns no error: url
\* parses.
ValidURL(url) == Parse(url).ok

\* "http" and "https"
Http == <<104, 116, 116, 112>>
Https == <<104, 116, 116, 112, 115>>

\* net/http.removeEmptyPort: a colon that ends the host and opens an empty
\* port is dropped.
removeEmptyPort(host) ==
    IF /\ LastIndexOf(host, Ch.colon) > LastIndexOf(host, Ch.rbrack)
       /\ host[Len(host)] = Ch.colon
    THEN Take(host, Len(host) - 1)
    ELSE host

\* client.Do gets as far as sending the request with the URL u = [ok,
\* scheme, host] and the headers header: http.Transport.RoundTrip returns an
\* error, before it connects, for a header field name that is no token, for
\* a scheme other than http and https and for a URL without host.  (The
\* header values of the model hold no byte it refuses.)
roundTrips(u, header) ==
    /\ \A k \in DOMAIN header : validHeaderFieldName(k)
    /\ u.scheme \in {Http, Https}
    /\ removeEmptyPort(u.host) # <<>>

\* http.NewRequestWithContext for the URLs of the transfers: whether it
\* returns a request, and the URL of the request.
NewRequest ==
    [url \in URLs \cup BadURLs |-> [ok |-> ValidURL(url), URL |-> Parse(url)]]

----------------------------------------------------------------------------
\* Broadcast hub
\*
\* hub.clients  ws.clients
\* hub.nconn    the number of connections upgraded so far; connections are
\*              numbered in the order of their upgrade
\* hub.joining  the connections whose handleWebSocket is at, or blocked in,
\*              the ws.clientsMu.Lock() that registers them
\* hub.leaving  the connections whose handleWebSocket has left its read loop
\*              and is at, or blocked in, the ws.clientsMu.Lock() that
\*              deletes them
\* hub.writer   the connection whose handleWebSocket has, in Lock(), got
\*              the writers' mutex of ws.clientsMu and announced itself: it
\*              waits for the readers to leave, and RLock blocks (0: none)
\* hub.rwait    the tasks blocked in ws.clientsMu.RLock()
\* hub.admitted the tasks the Unlock() of a writer has handed the read lock
\*              to and that have not run since
\* hub.proc     "up", "exited" (os.Exit was called) or "panic" (a goroutine
\*              panicked and nothing recovered it)
\* hub.panicked the tasks whose call of WriteMessage panicked
\* hub.closing  the connections deleted from ws.clients whose deferred
\*              conn.Close() has not run yet
\* hub.closed   the connections Close() was called on
\* hub.stuck    the connections whose peer has stopped reading: a
\*              WriteMessage on one of them does not return (no write
\*              deadline is set)
\* hub.pub      task -> the call of broadcastProgress the task is in, or
\*              has made last: whether it holds the read lock of
\*              ws.clientsMu, the record, the connections its range loop
\*              goes over (to), those still to come (todo), the one whose
\*              WriteMessage it is in (at, 0: none), those whose write has
\*              succeeded (got) and those whose write has failed (fails)
\* hub.nterm    task identifier -> number of terminal records (completed,
\*              failed) handed to broadcastProgress
\* hub.last     task identifier -> the record handed to broadcastProgress
\*              last

\* Task identifiers: readings of time.Now().UnixNano(), 0 for none.
TaskIds == 1..(IF MaxTasks > MaxParallel THEN MaxTasks ELSE MaxParallel)

NoRec == [task_id |-> 0, filename |-> <<>>, status |-> "none",
          percent |-> <<0, 1>>, downloaded |-> 0, total |-> 0,
          outputPath |-> <<>>, errorMsg |-> ""]

NoPub == [active |-> FALSE, rec |-> NoRec, to |-> {}, todo |-> {}, at |-> 0,
          got |-> {}, fails |-> {}, raced |-> FALSE]

\* ws.clientsMu is read-locked: some call of broadcastProgress is between its
\* RLock and its RUnlock.
ReadLocked(h) == h.admitted # {} \/ \E t \in DOMAIN h.pub : h.pub[t].active

\* RLock returns at once: no writer has announced itself.  (A writer that
\* is still blocked on the writers' mutex, behind another writer, has not:
\* the readers that wait are let in between the two.)
CanRLock(h) == h.writer = 0

\* sync.RWMutex.Unlock: the readers that wait get the read lock, and the
\* writers' mutex is free again.
Unlock(h) == [h EXCEPT !.writer = 0, !.admitted = h.rwait, !.rwait = {}]

\* The process runs.
Up == hub.proc = "up"

IsTerminal(status) == status \in {"completed", "failed"}

\* json.Marshal rejects NaN and +-Inf.
Marshalable(rec) == rec.percent[2] # 0

\* broadcastProgress up to its range loop: take the read lock and marshal
\* the record; a record that cannot be marshalled is sent to nobody.
broadcastProgress(h, t, rec) ==
    LET to == IF Marshalable(rec) THEN h.clients ELSE {}
    IN  [h EXCEPT
           !.pub[t] = [active |-> TRUE, rec |-> rec, to |-> to, todo |-> to,
                       at |-> 0, got |-> {}, fails |-> {}, raced |-> FALSE],
           !.nterm[rec.task_id] = IF IsTerminal(rec.status) THEN @ + 1 ELSE @,
           !.last[rec.task_id] = rec]

\* The range loop of broadcastProgress after WriteMessage has returned, with
\* nil (ok) or with an error: the loop goes on with the other connections.
writeReturned(p, ok) ==
    [p EXCEPT !.at = 0, !.raced = FALSE,
              !.todo = @ \ {p.at},
              !.got = IF ok THEN @ \cup {p.at} ELSE @,
              !.fails = IF ok THEN @ ELSE @ \cup {p.at}]

----------------------------------------------------------------------------

\* The callback without its assignment to Status.
progressCallbackKeepStatus(p, s) ==
    [p EXCEPT !.percent = s.percent, !.downloaded = s.downloaded,
              !.total = s.total]

\* The callback handleDownload passes to the engine, up to its call of
\* broadcastProgress: it copies the sample into the task's record and marks
\* it downloading.
progressCallback(p, s) ==
    [p EXCEPT !.percent = s.percent, !.downloaded = s.downloaded,
              !.total = s.total, !.status = "downloading"]

\* What the goroutine of handleDownload writes into the record once
\* downloadPDFWithProgress has returned err ("" stands for nil).
terminalRecord(p, err) ==
    IF err # ""
    THEN [p EXCEPT !.status = "failed", !.percent = <<0, 1>>, !.errorMsg = err]
    ELSE [p EXCEPT !.status = "completed", !.percent = <<100, 1>>]

\* The record handleDownload creates for a new task.
pendingRecord(taskID, filename, outputPath) ==
    [task_id |-> taskID, filename |-> filename, status |-> "pending",
     percent |-> <<0, 1>>, downloaded |-> 0, total |-> 0,
     outputPath |-> outputPath, errorMsg |-> ""]

----------------------------------------------------------------------------
\* Engine

NoResp == [status |-> 0, cl |-> -1, cr |-> -1, body |-> <<>>, loc |-> FALSE]

EngInit ==
    [url |-> <<>>, path |-> <<>>, chunk |-> 0, ctxDone |-> FALSE, startPos |-> 0,
     range |-> -1, resp |-> NoResp, totalSize |-> 0, downloaded |-> 0, pos |-> 0,
     body |-> <<>>, buf |-> <<>>, rd |-> "nil", ticker |-> FALSE, err |-> "",
     samples |-> <<>>, emits |-> 0, file0 |-> <<>>, written |-> <<>>,
     requests |-> 0, errCode |-> 0, copied |-> NoConfig,
     timeout |-> Dur(FALSE, <<>>), headers |-> <<>>, req |-> <<>>,
     taskID |-> 0, filename |-> <<>>]

\* Fields of eng[t] that are not variables of the code:
\*   samples  the samples handed to the progress callback so far
\*   emits    the number of them handed over by the current loop iteration
\*   file0    the content of the destination when the run opened it
\*   written  the bytes outputFile.Write has put into the file so far
\*   requests the number of calls of client.Do made so far
\*   errCode  the status code formatted into the returned error message
\*   copied   what ws.config.Copy() returned to handleDownload
\*   body     what resp.Body has still to deliver
\* and, of the code's variables:
\*   url, path, chunk, headers  the fields of downloadConfig
\*   timeout  the duration handed to context.WithTimeout
\*   taskID, filename  the locals of handleDownload
\*   req      the headers of the request, but for Range (range)
\*   buf, rd  buffer[:n] and err of the latest resp.Body.Read
\*   err      the error downloadPDFWithProgress returns ("" for nil)

\* Content-Range values: a total >= 0, or one of these two.
CRAbsent == -1
CRMalformed == -2

\* The status codes client.Do takes for a redirect: with a Location header
\* in the answer it sends a further request there (http.Client has no
\* CheckRedirect here), up to MaxRedirects requests in all.
RedirectStatuses == {301, 302, 303, 307, 308}
MaxRedirects == 10

\* The status codes outside 200..299 the server may answer with.
ErrorStatuses == {300, 403, 500} \cup RedirectStatuses

\* client.Do goes on to the Location of the answer r.
followed(r) == r.status \in RedirectStatuses /\ r.loc

\* What the server may answer to a request whose Range header starts at k
\* (k = -1: no Range header).  cl is Content-Length (-1: unknown), cr the
\* total named by Content-Range, loc whether there is a Location header (of
\* interest in a redirect only).  A 200 answer carries the full content of a
\* source of size cl (net/http ends the body after cl bytes).  A 206 answer
\* carries m bytes from the requested offset on: with a usable Content-Range
\* total c, either the rest of a source of size c or one byte more than that;
\* without one, one byte.
Responses(k) ==
    LET from == IF k < 0 THEN 0 ELSE k
    IN  {[status |-> c, cl |-> -1, cr |-> CRAbsent, body |-> <<>>, loc |-> FALSE] :
            c \in ErrorStatuses}
        \cup {[status |-> c, cl |-> -1, cr |-> CRAbsent, body |-> <<>>, loc |-> TRUE] :
                c \in RedirectStatuses}
        \cup {[status |-> 200, cl |-> n, cr |-> CRAbsent,
               body |-> Bytes(0, IF n < 0 THEN 0 ELSE n), loc |-> FALSE] :
                n \in -1..MaxTotal}
        \cup {[status |-> 206, cl |-> 1, cr |-> c, body |-> Bytes(from, 1),
               loc |-> FALSE] : c \in {CRAbsent, CRMalformed}}
        \cup {[status |-> 206, cl |-> x[2], cr |-> x[1], body |-> Bytes(from, x[2]),
               loc |-> FALSE] :
                x \in {y \in (0..MaxTotal) \X (0..MaxTotal) :
                          y[2] \in {y[1] - from, y[1] - from + 1}}}

\* The status check of the engine: the run goes on for a 2xx code only.
statusOK(code) == ~(code < 200 \/ code >= 300)

\* getTotalFileSize falling back to Content-Length when a 206 answer has no
\* Content-Range.
getTotalFileSizeFallback(resp, startPos) ==
    IF resp.status = 206 /\ resp.cr >= 0
    THEN [err |-> "", size |-> resp.cr]
    ELSE IF resp.status = 206 /\ resp.cr = CRMalformed
    THEN [err |-> "bad_content_range", size |-> 0]
    ELSE IF resp.cl <= 0 THEN [err |-> "size_unknown", size |-> 0]
         ELSE [err |-> "", size |-> resp.cl + startPos]

\* getTotalFileSize: [err, size].
getTotalFileSize(resp, startPos) ==
    IF resp.status = 206
    THEN IF resp.cr = CRAbsent THEN [err |-> "resume_unsupported", size |-> 0]
         ELSE IF resp.cr = CRMalformed THEN [err |-> "bad_content_range", size |-> 0]
         ELSE [err |-> "", size |-> resp.cr]
    ELSE IF resp.cl <= 0 THEN [err |-> "size_unknown", size |-> 0]
         ELSE [err |-> "", size |-> resp.cl + startPos]

\* The resume offset: the size of the destination when it is opened.
resumeOffset(f) == IF Len(f) > 0 THEN Len(f) ELSE 0

\* The Range header of the request (-1: none).
rangeHeader(startPos) == IF startPos > 0 THEN startPos ELSE -1

\* The engine without its Seek: the file offset stays where OpenFile put it.
seekOffsetZero(startPos) == 0

\* outputFile.Seek(startPos, io.SeekStart): the offset of the first write.
seekOffset(startPos) == startPos

\* downloadedSize := startPos
initialDownloaded(startPos) == startPos

\* downloadedSize += int64(n)
accumulate(downloaded, n) == downloaded + n

\* The ticker branch taken on every pending tick, with or without new data.
tickEmissionWithoutData(n, ticker) == ticker

\* The ticker branch of the loop is taken: the Read returned data, which has
\* been written and counted, and a tick is pending.
tickEmission(n, ticker) == n > 0 /\ ticker

\* The sample handed to the progress callback.
sample(downloaded, total) ==
    [percent |-> Percent(downloaded, total), downloaded |-> downloaded,
     total |-> total]

\* The positions of a task.  Of the handler of POST /download:
\*   copy, headers, record   before the reads of ws.config at web.go 305,
\*                           317 and 340
\*   lock_pending            the pending record is made: before the RLock of
\*                           broadcastProgress
\*   wait_pending            blocked in that RLock
\*   pub_pending             in the broadcast of the pending record
\*   aborted                 the handler has panicked (net/http recovers the
\*                           panic and drops the request)
\* and of the goroutine it starts:
\*   spawned     before downloadPDFWithProgress opens the file
\*   requesting  in client.Do
\*   loop        at the top of the chunk loop
\*   reading     in resp.Body.Read
\*   write       before outputFile.Write
\*   cb_tick, cb_eof    before the call of the callback in the ticker branch
\*                      and in the end-of-stream branch
\*   lock_tick, lock_eof  the callback has updated the record: before the
\*                      RLock of broadcastProgress
\*   wait_tick, wait_eof  blocked in that RLock
\*   pub_tick, pub_eof  in the broadcast of that callback
\*   returned    downloadPDFWithProgress has returned
\*   lock_final  the terminal status is set: before the RLock of
\*               broadcastProgress
\*   wait_final  blocked in that RLock
\*   pub_final   in the broadcast of the terminal record
\*   done        the goroutine has ended
Locking == {"lock_pending", "lock_tick", "lock_eof", "lock_final"}
Waiting == {"wait_pending", "wait_tick", "wait_eof", "wait_final"}
Publishing == {"pub_pending", "pub_tick", "pub_eof", "pub_final"}
Handling == {"copy", "headers", "record", "lock_pending", "wait_pending",
             "pub_pending"}
InLoop == {"loop", "reading", "write", "cb_tick", "cb_eof", "lock_tick",
           "lock_eof", "wait_tick", "wait_eof", "pub_tick", "pub_eof"}
InEngine == {"spawned", "requesting"} \cup InLoop
AfterReturn == {"returned", "lock_final", "wait_final", "pub_final"}

\* Where a call of RLock leaves the task: blocked, or in the broadcast.
WaitOf == [lock_pending |-> "wait_pending", lock_tick |-> "wait_tick",
           lock_eof |-> "wait_eof", lock_final |-> "wait_final"]
PubOf == [lock_pending |-> "pub_pending", lock_tick |-> "pub_tick",
          lock_eof |-> "pub_eof", lock_final |-> "pub_final",
          wait_pending |-> "pub_pending", wait_tick |-> "pub_tick",
          wait_eof |-> "pub_eof", wait_final |-> "pub_final"]

InFlight(t) == pc[t] \in InEngine \cup AfterReturn

----------------------------------------------------------------------------
\* Actions

\* POST /save-config: the configuration of the request replaces ws.config.
SaveConfig(data) ==
    /\ Up
    /\ config' = data
    /\ UNCHANGED <<files, nextTask, pc, eng, progress, hub, registry>>

\* POST /reset-config: the default configuration replaces ws.config, unless
\* writing it to the configuration file fails (saved = FALSE).
ResetConfig(saved) ==
    /\ Up
    /\ config' = IF saved THEN getDefaultConfig ELSE config
    /\ UNCHANGED <<files, nextTask, pc, eng, progress, hub, registry>>

\* POST /download up to the check of the URL: u is the URL of the request
\* (<<>>: none), for which ws.config.URL stands in; without a URL the
\* request is refused.
HandleDownload(u) ==
    /\ Up
    /\ nextTask + 1 \in Tasks
    /\ LET t   == nextTask + 1
           url == IF u = <<>> THEN config.URL ELSE u
       IN  /\ url # <<>>
           /\ nextTask' = t
           /\ pc' = [pc EXCEPT ![t] = "copy"]
           /\ eng' = [eng EXCEPT ![t] = [EngInit EXCEPT !.url = url]]
    /\ UNCHANGED <<files, config, progress, hub, registry>>

\* handleDownload: copy ws.config, name the destination and get the timeout.
HandleCopy(t) ==
    /\ Up
    /\ pc[t] = "copy"
    /\ \E now \in Clock :
       LET downloadConfig == Copy(config)
       IN  eng' = [eng EXCEPT ![t] =
                     [@ EXCEPT !.copied = downloadConfig,
                               !.path = DestPath(downloadConfig, eng[t].url, now),
                               !.chunk = downloadConfig.ChunkSize,
                               !.timeout = GetTimeoutDuration(downloadConfig)]]
    /\ pc' = [pc EXCEPT ![t] = "headers"]
    /\ UNCHANGED <<files, config, nextTask, progress, hub, registry>>

\* The identifier of the latest task named so far: the clock does not go
\* back, and two readings of it may be the same.
LastId == IF \A t \in Tasks : eng[t].taskID = 0 /\ progress[t].task_id = 0 THEN 0
          ELSE CHOOSE i \in TaskIds :
                  /\ \E t \in Tasks : i \in {eng[t].taskID, progress[t].task_id}
                  /\ \A t \in Tasks : eng[t].taskID <= i /\ progress[t].task_id <= i

\* handleDownload: copy the header map of ws.config, create the context (a
\* timeout that is not positive gives one that is done from the start), read
\* the clock for the task identifier and name the file.
HandleHeaders(t) ==
    /\ Up
    /\ pc[t] = "headers"
    /\ \E now \in Clock, id \in TaskIds :
          /\ id \in {LastId, LastId + 1}
          /\ eng' = [eng EXCEPT ![t] =
                       [@ EXCEPT !.headers = copyHeaders(config.Headers),
                                 !.ctxDone = ~Positive(eng[t].timeout),
                                 !.taskID = id,
                                 !.filename = getDefaultFilename(eng[t].url, now)]]
    /\ pc' = [pc EXCEPT ![t] = "record"]
    /\ UNCHANGED <<files, config, nextTask, progress, hub, registry>>

\* handleDownload: create the pending record, with the OutputPath ws.config
\* has now, and call broadcastProgress with it.
HandleRecord(t) ==
    /\ Up
    /\ pc[t] = "record"
    /\ progress' = [progress EXCEPT ![t] =
                      pendingRecord(eng[t].taskID, eng[t].filename, config.OutputPath)]
    /\ pc' = [pc EXCEPT ![t] = "lock_pending"]
    /\ UNCHANGED <<files, config, nextTask, eng, hub, registry>>

\* broadcastProgress calls ws.clientsMu.RLock(): without an announced writer
\* it has the read lock and goes on to marshal the record the task holds by
\* now; with one it blocks.
RLock(t) ==
    /\ Up
    /\ pc[t] \in Locking
    /\ IF CanRLock(hub)
       THEN /\ hub' = broadcastProgress(hub, t, progress[t])
            /\ pc' = [pc EXCEPT ![t] = PubOf[pc[t]]]
       ELSE /\ hub' = [hub EXCEPT !.rwait = @ \cup {t}]
            /\ pc' = [pc EXCEPT ![t] = WaitOf[pc[t]]]
    /\ UNCHANGED <<files, config, nextTask, eng, progress, registry>>

\* The RLock task t was blocked in returns, the writer having unlocked.
RLocked(t) ==
    /\ Up
    /\ pc[t] \in Waiting
    /\ t \in hub.admitted
    /\ hub' = broadcastProgress([hub EXCEPT !.admitted = @ \ {t}], t, progress[t])
    /\ pc' = [pc EXCEPT ![t] = PubOf[pc[t]]]
    /\ UNCHANGED <<files, config, nextTask, eng, progress, registry>>

\* Another call of broadcastProgress is in WriteMessage on connection c.
OthersAt(h, t, c) == {t2 \in DOMAIN h.pub \ {t} : h.pub[t2].at = c}

\* WriteMessage panics ("concurrent write to websocket connection") in the
\* call of task t.  In the handler of POST /download the deferred RUnlock
\* runs and net/http recovers the panic: the request is dropped and no
\* goroutine is started.  In the goroutine of a transfer nothing recovers
\* it, and the process ends.
panics(h, t, inHandler) ==
    IF inHandler
    THEN [h EXCEPT !.pub[t] = [@ EXCEPT !.active = FALSE, !.at = 0, !.raced = FALSE],
                   !.panicked = @ \cup {t}]
    ELSE [h EXCEPT !.proc = "panic", !.panicked = @ \cup {t}]

\* The range loop of broadcastProgress gets to connection c and calls
\* WriteMessage on it.  While another call of broadcastProgress is in
\* WriteMessage on c, the two calls race for the isWriting flag of the
\* connection: this one panics at once, or it goes on (how = "write") and
\* either may panic at its end.
PublishWrite(t, c, how) ==
    /\ Up
    /\ pc[t] \in Publishing
    /\ hub.pub[t].at = 0
    /\ c \in hub.pub[t].todo
    /\ IF how = "panic"
       THEN /\ OthersAt(hub, t, c) # {}
            /\ hub' = panics(hub, t, pc[t] = "pub_pending")
            /\ pc' = [pc EXCEPT ![t] = IF @ = "pub_pending" THEN "aborted" ELSE @]
       ELSE /\ hub' = [hub EXCEPT
                         !.pub = [t2 \in DOMAIN @ |->
                                    IF t2 = t
                                    THEN [@[t2] EXCEPT !.at = c,
                                             !.raced = OthersAt(hub, t, c) # {}]
                                    ELSE IF t2 \in OthersAt(hub, t, c)
                                    THEN [@[t2] EXCEPT !.raced = TRUE]
                                    ELSE @[t2]]]
            /\ pc' = pc
    /\ UNCHANGED <<files, config, nextTask, eng, progress, registry>>

\* The WriteMessage the task is in returns: with nil, or with an error, and
\* then the connection is closed; or, after a race for the isWriting flag,
\* it panics.  A write to a closed connection fails; a write to a connection
\* whose peer has stopped reading does not return.
PublishWritten(t, how) ==
    /\ Up
    /\ pc[t] \in Publishing
    /\ LET c == hub.pub[t].at
       IN  /\ c # 0
           /\ c \notin hub.stuck \ hub.closed
           /\ IF how = "panic"
              THEN /\ hub.pub[t].raced
                   /\ hub' = panics(hub, t, pc[t] = "pub_pending")
                   /\ pc' = [pc EXCEPT ![t] = IF @ = "pub_pending" THEN "aborted" ELSE @]
              ELSE /\ c \in hub.closed => how = "error"
                   /\ hub' = [hub EXCEPT
                                !.pub[t] = writeReturned(@, how = "nil"),
                                !.closed = IF how = "nil" THEN @ ELSE @ \cup {c}]
                   /\ pc' = pc
    /\ UNCHANGED <<files, config, nextTask, eng, progress, registry>>

\* What follows the 'if n > 0' block of an iteration once the callback of the
\* ticker branch, if any, has returned: the check of the error of the Read.
afterChunk(rd) ==
    IF rd = "eof" THEN "cb_eof" ELSE IF rd = "err" THEN "returned" ELSE "loop"

\* The range loop is over: broadcastProgress releases the read lock and
\* returns, and its caller goes on to its next step: the handler starts the
\* goroutine; the engine, after the callback of the ticker branch, looks at
\* the error of the Read and, after that of the end-of-stream branch,
\* returns nil; the goroutine ends after the terminal record.
PublishEnd(t) ==
    /\ Up
    /\ pc[t] \in Publishing
    /\ hub.pub[t].active
    /\ hub.pub[t].at = 0
    /\ hub.pub[t].todo = {}
    /\ hub' = [hub EXCEPT !.pub[t].active = FALSE]
    /\ LET e == eng[t]
           next == IF pc[t] = "pub_pending" THEN "spawned"
                   ELSE IF pc[t] = "pub_final" THEN "done"
                   ELSE IF pc[t] = "pub_eof" THEN "returned"
                   ELSE afterChunk(e.rd)
       IN  /\ pc' = [pc EXCEPT ![t] = next]
           /\ eng' = [eng EXCEPT ![t] =
                        IF next = "done" THEN EngInit
                        ELSE IF pc[t] = "pub_tick" /\ e.rd = "err"
                        THEN [e EXCEPT !.err = "read_error"]
                        ELSE e]
    /\ UNCHANGED <<files, config, nextTask, progress, registry>>

\* The context of task t expires.
Timeout(t) ==
    /\ Up
    /\ pc[t] \in (Handling \ {"copy", "headers"}) \cup InEngine
    /\ ~eng[t].ctxDone
    /\ eng' = [eng EXCEPT ![t].ctxDone = TRUE]
    /\ UNCHANGED <<files, config, nextTask, pc, progress, hub, registry>>

\* The engine taking its headers from the configuration of the server, as it
\* is when the request is built.
engineHeadersOfServer(e, wsConfig) == wsConfig.Headers

\* config.Headers in downloadPDFWithProgress: the headers of the Config value
\* handleDownload passed to it, whatever ws.config holds by now.
engineHeaders(e, wsConfig) == e.headers

\* downloadPDFWithProgress up to client.Do: open the file, which creates it
\* when it is not there, take its size as the resume offset, build the
\* request and send it.  opened = FALSE: OpenFile fails.  A URL that
\* http.NewRequestWithContext rejects ends the run before any request.
\* (Stat on the open file succeeds.)
EngineOpen(t, opened) ==
    /\ Up
    /\ pc[t] = "spawned"
    /\ LET e        == eng[t]
           f        == files[e.path].data
           startPos == resumeOffset(f)
           e1       == [e EXCEPT !.file0 = f, !.startPos = startPos]
       IN  IF ~opened
           THEN /\ eng' = [eng EXCEPT ![t] =
                             [e EXCEPT !.file0 = f, !.err = "open_error"]]
                /\ pc' = [pc EXCEPT ![t] = "returned"]
                /\ UNCHANGED files
           ELSE /\ files' = [files EXCEPT ![e.path].exists = TRUE]
                /\ IF ~NewRequest[e.url].ok
                   THEN /\ eng' = [eng EXCEPT ![t] =
                                     [e1 EXCEPT !.err = "new_request_error"]]
                        /\ pc' = [pc EXCEPT ![t] = "returned"]
                   ELSE /\ \E req \in RequestHeaders[engineHeaders(e, config)] :
                              eng' = [eng EXCEPT ![t] =
                                        [e1 EXCEPT
                                           !.range = rangeHeader(startPos),
                                           !.requests = @ + 1,
                                           !.req = req]]
                        /\ pc' = [pc EXCEPT ![t] = "requesting"]
    /\ UNCHANGED <<config, nextTask, progress, hub, registry>>

\* The server answers, or client.Do returns and the engine goes on to the
\* chunk loop: check the status, get the total size, seek, start the ticker.
\* how is "request" (client.Do fails, as it does once the context is done),
\* "response" (the server answers r) or "seek" (the server answers r and Seek
\* fails).  On a redirect with a Location client.Do sends a further request,
\* with the headers of the first and, as the server is an arbitrary one,
\* any answer to it; at the MaxRedirects-th it fails ("stopped after 10
\* redirects").  A redirect without a Location is returned as it is.
EngineResponse(t, how, r) ==
    /\ Up
    /\ pc[t] = "requesting"
    /\ LET e  == eng[t]
           ts == getTotalFileSize(r, e.startPos)
           e3 == [e EXCEPT !.resp = r]
           fail(x, msg) == /\ eng' = [eng EXCEPT ![t] = [x EXCEPT !.err = msg]]
                           /\ pc' = [pc EXCEPT ![t] = "returned"]
       IN  \/ /\ how = "request"
              /\ r = NoResp
              /\ fail(e, "request_error")
           \/ /\ how \in {"response", "seek"}
              /\ ~e.ctxDone
              /\ roundTrips(NewRequest[e.url].URL, e.req)
              /\ r \in Responses(e.range)
              /\ IF followed(r)
                 THEN /\ how = "response"
                      /\ IF e.requests < MaxRedirects
                         THEN /\ eng' = [eng EXCEPT ![t] =
                                           [e3 EXCEPT !.requests = @ + 1]]
                              /\ pc' = pc
                         ELSE fail(e3, "request_error")
                 ELSE IF ~statusOK(r.status)
                 THEN how = "response"
                      /\ fail([e3 EXCEPT !.errCode = r.status], "server_error")
                 ELSE IF ts.err # ""
                 THEN how = "response" /\ fail(e3, ts.err)
                 ELSE IF how = "seek"
                 THEN fail([e3 EXCEPT !.totalSize = ts.size], "seek_error")
                 ELSE /\ eng' = [eng EXCEPT ![t] =
                                    [e3 EXCEPT !.totalSize = ts.size,
                                               !.pos = seekOffset(e.startPos),
                                               !.downloaded =
                                                   initialDownloaded(e.startPos),
                                               !.body = r.body]]
                      /\ pc' = [pc EXCEPT ![t] = "loop"]
    /\ UNCHANGED <<files, config, nextTask, progress, hub, registry>>

\* The 200 ms ticker of task t fires (its channel holds at most one tick).
Tick(t) ==
    /\ Up
    /\ pc[t] \in InLoop
    /\ ~eng[t].ticker
    /\ eng' = [eng EXCEPT ![t].ticker = TRUE]
    /\ UNCHANGED <<files, config, nextTask, pc, progress, hub, registry>>

\* The top of the chunk loop: return when the context is done, else call
\* resp.Body.Read.
EngineSelect(t) ==
    /\ Up
    /\ pc[t] = "loop"
    /\ IF eng[t].ctxDone
       THEN /\ eng' = [eng EXCEPT ![t].err = "cancelled", ![t].emits = 0]
            /\ pc' = [pc EXCEPT ![t] = "returned"]
       ELSE /\ eng' = [eng EXCEPT ![t].emits = 0]
            /\ pc' = [pc EXCEPT ![t] = "reading"]
    /\ UNCHANGED <<files, config, nextTask, progress, hub, registry>>

\* resp.Body.Read returns n bytes and rd: "nil", "eof" or "err".  Once the
\* context is done the Read fails.  With bytes the loop goes on to write
\* them; without, to its check of the error.
EngineRead(t, n, rd) ==
    /\ Up
    /\ pc[t] = "reading"
    /\ LET e    == eng[t]
           next == IF n > 0 THEN "write"
                   ELSE IF tickEmission(n, e.ticker) THEN "cb_tick"
                   ELSE afterChunk(rd)
       IN  /\ n \in 0..Min(e.chunk, Len(e.body))
           /\ rd = "nil" => n > 0
           /\ rd = "eof" => n = Len(e.body)
           /\ e.ctxDone => rd = "err"
           /\ eng' = [eng EXCEPT ![t] =
                        [e EXCEPT !.buf = Take(e.body, n),
                                  !.body = Drop(e.body, n),
                                  !.rd = rd,
                                  !.ticker = IF next = "cb_tick" THEN FALSE ELSE @,
                                  !.err = IF next = "returned"
                                          THEN "read_error" ELSE @]]
           /\ pc' = [pc EXCEPT ![t] = next]
    /\ UNCHANGED <<files, config, nextTask, progress, hub, registry>>

\* outputFile.Write(buffer[:n]) and what follows it up to the next call of
\* the callback.  wrote is the number of bytes that get into the file: all
\* of them, or fewer when the write fails.  After a full write the bytes are
\* counted and the ticker is looked at.
EngineWrite(t, wrote) ==
    /\ Up
    /\ pc[t] = "write"
    /\ LET e    == eng[t]
           n    == Len(e.buf)
           data == Take(e.buf, wrote)
       IN  /\ wrote \in 0..n
           /\ files' = [files EXCEPT ![e.path].data = WriteAt(@, e.pos, data)]
           /\ IF wrote < n
              THEN /\ eng' = [eng EXCEPT ![t] =
                                [e EXCEPT !.err = "write_error",
                                          !.pos = @ + wrote,
                                          !.written = @ \o data]]
                   /\ pc' = [pc EXCEPT ![t] = "returned"]
              ELSE LET tickE == tickEmission(n, e.ticker)
                   IN  /\ eng' = [eng EXCEPT ![t] =
                                    [e EXCEPT
                                       !.pos = @ + n,
                                       !.downloaded = accumulate(@, n),
                                       !.written = @ \o data,
                                       !.ticker = IF tickE THEN FALSE ELSE @,
                                       !.err = IF ~tickE /\ e.rd = "err"
                                               THEN "read_error" ELSE @]]
                       /\ pc' = [pc EXCEPT ![t] =
                                    IF tickE THEN "cb_tick" ELSE afterChunk(e.rd)]
    /\ UNCHANGED <<config, nextTask, progress, hub, registry>>

\* The engine calls the callback with the current sample, in the ticker
\* branch or in the end-of-stream branch; the callback updates the record
\* and calls broadcastProgress.
Callback(t) ==
    /\ Up
    /\ pc[t] \in {"cb_tick", "cb_eof"}
    /\ LET e == eng[t]
           s == sample(e.downloaded, e.totalSize)
       IN  /\ eng' = [eng EXCEPT ![t].samples = Append(@, s),
                                 ![t].emits = @ + 1]
           /\ progress' = [progress EXCEPT ![t] = progressCallback(@, s)]
    /\ pc' = [pc EXCEPT ![t] = IF pc[t] = "cb_tick" THEN "lock_tick" ELSE "lock_eof"]
    /\ UNCHANGED <<files, config, nextTask, hub, registry>>

\* The goroutine of handleDownload after the engine has returned: set the
\* terminal status and call broadcastProgress.
Finish(t) ==
    /\ Up
    /\ pc[t] = "returned"
    /\ progress' = [progress EXCEPT ![t] = terminalRecord(@, eng[t].err)]
    /\ pc' = [pc EXCEPT ![t] = "lock_final"]
    /\ UNCHANGED <<files, config, nextTask, eng, hub, registry>>

\* os.Exit(0): the process ends, and with it every handler and goroutine,
\* wherever it is.
osExit ==
    /\ hub' = [hub EXCEPT !.proc = "exited"]
    /\ UNCHANGED <<files, config, nextTask, pc, eng, progress, registry>>

\* POST /exit: the goroutine the handler starts calls os.Exit a second
\* later.
handleExit == Up /\ osExit

\* The check of every 30 seconds finds no request in the last 5 minutes
\* (the steps of a transfer in flight are no requests) and calls os.Exit.
autoExitChecker == Up /\ osExit

\* handleWebSocket: the upgrade succeeds and the handler calls
\* ws.clientsMu.Lock().
Upgrade(c) ==
    /\ Up
    /\ c = hub.nconn + 1
    /\ c \in Conns
    /\ hub' = [hub EXCEPT !.nconn = c, !.joining = @ \cup {c}]
    /\ UNCHANGED <<files, config, nextTask, pc, eng, progress, registry>>

\* sync.RWMutex.Lock up to its wait for the readers: the handleWebSocket of
\* connection c gets the writers' mutex, which no other writer holds, and
\* announces itself.
Lock(c) ==
    /\ Up
    /\ c \in hub.joining \cup hub.leaving
    /\ hub.writer = 0
    /\ hub' = [hub EXCEPT !.writer = c]
    /\ UNCHANGED <<files, config, nextTask, pc, eng, progress, registry>>

\* Lock returns, once no broadcast holds the read lock: handleWebSocket
\* registers the connection and unlocks; it then waits in ReadMessage.
Connect(c) ==
    /\ Up
    /\ c \in hub.joining
    /\ hub.writer = c
    /\ ~ReadLocked(hub)
    /\ hub' = Unlock([hub EXCEPT !.joining = @ \ {c}, !.clients = @ \cup {c}])
    /\ UNCHANGED <<files, config, nextTask, pc, eng, progress, registry>>

\* ReadMessage fails (the peer went away, or the connection was closed):
\* handleWebSocket leaves its read loop and calls ws.clientsMu.Lock().
ReaderExit(c) ==
    /\ Up
    /\ c \in hub.clients \ hub.leaving
    /\ hub' = [hub EXCEPT !.leaving = @ \cup {c}]
    /\ UNCHANGED <<files, config, nextTask, pc, eng, progress, registry>>

\* Lock returns, once no broadcast holds the read lock: handleWebSocket
\* deletes the connection and unlocks.
Unregister(c) ==
    /\ Up
    /\ c \in hub.leaving
    /\ hub.writer = c
    /\ ~ReadLocked(hub)
    /\ hub' = Unlock([hub EXCEPT !.leaving = @ \ {c}, !.clients = @ \ {c},
                                 !.closing = @ \cup {c}])
    /\ UNCHANGED <<files, config, nextTask, pc, eng, progress, registry>>

\* The deferred conn.Close() of handleWebSocket.
CloseConn(c) ==
    /\ Up
    /\ c \in hub.closing
    /\ hub' = [hub EXCEPT !.closing = @ \ {c}, !.closed = @ \cup {c}]
    /\ UNCHANGED <<files, config, nextTask, pc, eng, progress, registry>>

\* The peer of connection c stops reading: from now on a write to c blocks.
Stall(c) ==
    /\ Up
    /\ c \in hub.clients \ (hub.closed \cup hub.stuck)
    /\ hub' = [hub EXCEPT !.stuck = @ \cup {c}]
    /\ UNCHANGED <<files, config, nextTask, pc, eng, progress, registry>>

\* The files of the disk: not there, or there with some content.
NoFile == [exists |-> FALSE, data |-> <<>>]
File(data) == [exists |-> TRUE, data |-> data]

\* The destination of "http://h/x.pdf" under the output directory the server is
\* started with.
StartPath == DestPath(StartConfig(1), CHOOSE u \in URLs : TRUE, <<>>)

\* The server has just been started.  The disk may hold what an earlier,
\* interrupted transfer of the same source left: a prefix of the source.
Init ==
    /\ files \in [Paths -> {NoFile} \cup {File(Bytes(0, k)) : k \in 0..MaxTotal}]
    /\ \A p \in Paths \ {StartPath} : files[p] = NoFile
    /\ config \in {StartConfig(c) : c \in ChunkSizes}
    /\ nextTask = 0
    /\ pc = [t \in Tasks |-> "idle"]
    /\ eng = [t \in Tasks |-> EngInit]
    /\ progress = [t \in Tasks |-> NoRec]
    /\ hub = [clients |-> {}, nconn |-> 0, joining |-> {}, leaving |-> {},
              writer |-> 0, rwait |-> {}, admitted |-> {},
              proc |-> "up", panicked |-> {},
              closing |-> {}, closed |-> {}, stuck |-> {},
              pub |-> [t \in Tasks |-> NoPub],
              nterm |-> [i \in TaskIds |-> 0],
              last |-> [i \in TaskIds |-> NoRec]]
    /\ registry = <<>>

\* Task t is somewhere between its request and the end of its goroutine.
Busy(t) == pc[t] \notin {"idle", "done", "aborted"}

\* No transfer is being handled or is in flight.
Quiet == \A t \in Tasks : ~Busy(t)

\* Transfers are requested one at a time.
OneAtATime == Quiet /\ nextTask < MaxTasks

\* The steps of the handler of POST /download after the check of the URL.
Handler(t) == HandleCopy(t) \/ HandleHeaders(t) \/ HandleRecord(t)

\* The process is ended from outside the transfers.
Exit == handleExit \/ autoExitChecker

\* Transfers requested one at a time against an arbitrary server, with no
\* observer connected.
Next ==
    \/ OneAtATime /\ \E u \in URLs \cup BadURLs : HandleDownload(u)
    \/ \E t \in Tasks : HandleCopy(t)
    \/ \E t \in Tasks : HandleHeaders(t)
    \/ \E t \in Tasks : HandleRecord(t)
    \/ \E t \in Tasks : RLock(t)
    \/ \E t \in Tasks : PublishEnd(t)
    \/ \E t \in Tasks : Timeout(t)
    \/ handleExit
    \/ autoExitChecker
    \/ \E t \in Tasks, opened \in BOOLEAN : EngineOpen(t, opened)
    \/ \E t \in Tasks, how \in {"request", "response", "seek"} :
          /\ pc[t] = "requesting"
          /\ \E r \in {NoResp} \cup Responses(eng[t].range) : EngineResponse(t, how, r)
    \/ \E t \in Tasks : Tick(t)
    \/ \E t \in Tasks : EngineSelect(t)
    \/ \E t \in Tasks, n \in 0..MaxChunk, rd \in {"nil", "eof", "err"} :
          EngineRead(t, n, rd)
    \/ \E t \in Tasks, wrote \in 0..MaxChunk : EngineWrite(t, wrote)
    \/ \E t \in Tasks : Callback(t)
    \/ \E t \in Tasks : Finish(t)

Spec == Init /\ [][Next]_vars

\* The answers of a server that serves a source of some size n: the whole
\* source with 200, or the rest of it from the requested offset with 206;
\* or a refusal.
HonestResponses(k) ==
    {r \in Responses(k) :
        \/ r.status = 403
        \/ r.status = 200 /\ r.cl > 0
        \/ r.status = 206 /\ r.cr >= 0 /\ k >= 0 /\ r.cr = k + Len(r.body)}

\* The engine of task t against such a server, on a disk that takes every
\* write: the request is answered, the body is read in full chunks.
HonestEngine(t) ==
    \/ EngineOpen(t, TRUE)
    \/ /\ pc[t] = "requesting"
       /\ \E r \in HonestResponses(eng[t].range) : EngineResponse(t, "response", r)
    \/ EngineSelect(t)
    \/ /\ pc[t] = "reading"
       /\ \E rd \in {"nil", "eof", "err"} :
             EngineRead(t, IF eng[t].ctxDone THEN 0
                           ELSE Min(eng[t].chunk, Len(eng[t].body)), rd)
    \/ /\ pc[t] = "write"
       /\ EngineWrite(t, Len(eng[t].buf))
    \/ Callback(t)
    \/ Finish(t)

\* client.Do of task t fails because the context is done.
RequestCancelled(t) == eng[t].ctxDone /\ EngineResponse(t, "request", NoResp)

\* The steps of a call of broadcastProgress by task t.
Publish(t) ==
    \/ RLock(t)
    \/ RLocked(t)
    \/ \E c \in Conns, how \in {"write", "panic"} : PublishWrite(t, c, how)
    \/ \E how \in {"nil", "error", "panic"} : PublishWritten(t, how)
    \/ PublishEnd(t)

\* A call of broadcastProgress by task t with no observer registered.
PublishToNone(t) == RLock(t) \/ PublishEnd(t)

\* The steps of handleWebSocket for connection c.
Socket(c) ==
    Upgrade(c) \/ Lock(c) \/ Connect(c) \/ ReaderExit(c) \/ Unregister(c)
               \/ CloseConn(c)

\* Transfers requested one at a time against such a server, while observers
\* connect, break and disconnect.
NextHub ==
    \/ OneAtATime /\ \E u \in URLs : HandleDownload(u)
    \/ \E t \in Tasks : Handler(t)
    \/ \E t \in Tasks : Timeout(t)
    \/ \E t \in Tasks : Tick(t)
    \/ \E t \in Tasks : HonestEngine(t)
    \/ \E t \in Tasks : RequestCancelled(t)
    \/ \E t \in Tasks : Publish(t)
    \/ \E c \in Conns : Socket(c)
    \/ Exit

\* As Init, on a disk without the destination file.
InitHub == Init /\ \A p \in Paths : files[p] = NoFile

SpecHub == InitHub /\ [][NextHub]_vars

\* Transfers requested for any URL, up to the point where handleDownload has
\* named the file, published the pending record and started the goroutine.
NextFilename ==
    \/ OneAtATime /\ \E u \in AllURLs : HandleDownload(u)
    \/ \E t \in Tasks : Handler(t)
    \/ \E t \in Tasks : PublishToNone(t)

InitFilename == InitHub /\ config.ChunkSize = 1

SpecFilename == InitFilename /\ [][NextFilename]_vars

\* The configuration is the one the server was started with.
Unsaved == config = StartConfig(config.ChunkSize)

\* The configuration saved once, while no transfer is in flight, and
\* transfers requested one at a time, with or without a URL in the request,
\* and followed until the request is sent.
NextConfig ==
    \/ Quiet /\ Unsaved /\ \E data \in Configs : SaveConfig(data)
    \/ OneAtATime /\ \E u \in URLs \cup {<<>>} : HandleDownload(u)
    \/ \E t \in Tasks : Handler(t)
    \/ \E t \in Tasks : PublishToNone(t)
    \/ \E t \in Tasks : EngineOpen(t, TRUE)

InitConfig == Init /\ config.ChunkSize = 1

SpecConfig == InitConfig /\ [][NextConfig]_vars

\* The configurations saved while transfers run: one with a Timeout of "3s"
\* and one with the single header x-token.
SavedInFlight ==
    {c \in Configs :
        \/ c.Timeout = ThreeSeconds
        \/ c.Headers = [k \in {LowerXToken} |-> "v"]}

\* Transfers requested one at a time, while the configuration is saved and
\* reset at any time, also between the steps of the handler and while a
\* transfer is in flight.
NextDescriptor ==
    \/ \E data \in SavedInFlight : SaveConfig(data)
    \/ \E saved \in BOOLEAN : ResetConfig(saved)
    \/ OneAtATime /\ \E u \in URLs : HandleDownload(u)
    \/ \E t \in Tasks : Handler(t)
    \/ \E t \in Tasks : PublishToNone(t)
    \/ \E t \in Tasks : HonestEngine(t)
    \/ Exit

SpecDescriptor == InitFilename /\ [][NextDescriptor]_vars

\* The steps of the goroutine of task t and of the calls of
\* broadcastProgress it makes.
Goroutine(t) == HonestEngine(t) \/ RequestCancelled(t) \/ Publish(t)

\* The steps in which a handleWebSocket that has called the Lock of
\* ws.clientsMu gets on with it, and its deferred Close.
Locker(c) == Lock(c) \/ Connect(c) \/ Unregister(c) \/ CloseConn(c)

\* Transfers requested one at a time against an honest server, with a
\* timeout, while observers connect, disconnect and stop reading.
NextLive ==
    \/ OneAtATime /\ \E u \in URLs : HandleDownload(u)
    \/ \E t \in Tasks : Handler(t)
    \/ \E t \in Tasks : Timeout(t)
    \/ \E t \in Tasks : Tick(t)
    \/ \E t \in Tasks : Goroutine(t)
    \/ \E c \in Conns : Upgrade(c)
    \/ \E c \in Conns : ReaderExit(c)
    \/ \E c \in Conns : Locker(c)
    \/ \E c \in Conns : Stall(c)
    \/ Exit

\* The goroutine of a transfer runs whenever it can, and the timer of its
\* context fires; a goroutine waiting for the lock of ws.clientsMu gets it
\* when it is free; nothing is assumed of the server and of the observers.
SpecLive ==
    /\ InitFilename
    /\ [][NextLive]_vars
    /\ \A t \in Tasks : WF_vars(Goroutine(t)) /\ WF_vars(Timeout(t))
    /\ \A c \in Conns : WF_vars(Locker(c))

\* Transfers requested at any time, also while others are being handled or
\* are in flight, against a server that answers honestly and whose body is
\* read in full chunks.
NextParallel ==
    \/ nextTask < MaxParallel /\ \E u \in URLs : HandleDownload(u)
    \/ \E t \in Tasks : Handler(t)
    \/ \E t \in Tasks : PublishToNone(t)
    \/ \E t \in Tasks : HonestEngine(t)
    \/ Exit

SpecParallel == InitHub /\ [][NextParallel]_vars

\* Transfers requested at any time whose request fails, with observers
\* coming and going.
NextPublish ==
    \/ nextTask < MaxParallel /\ \E u \in URLs : HandleDownload(u)
    \/ \E t \in Tasks : Handler(t)
    \/ \E t \in Tasks : EngineOpen(t, TRUE)
    \/ \E t \in Tasks : EngineResponse(t, "request", NoResp)
    \/ \E t \in Tasks : Finish(t)
    \/ \E t \in Tasks : Publish(t)
    \/ \E c \in Conns : Socket(c)

SpecPublish == InitFilename /\ [][NextPublish]_vars

\* Two transfers requested at any time against an honest server, the first
\* followed to its end and the second until its goroutine is started, while
\* observers connect and their connections break or stall; none of them
\* leaves.
NextObservers ==
    \/ nextTask < MaxParallel /\ \E u \in URLs : HandleDownload(u)
    \/ \E t \in Tasks : Handler(t)
    \/ Tick(1)
    \/ HonestEngine(1)
    \/ \E t \in Tasks : Publish(t)
    \/ \E c \in Conns : Upgrade(c)
    \/ \E c \in Conns : Lock(c)
    \/ \E c \in Conns : Connect(c)
    \/ \E c \in Conns : Stall(c)

SpecObservers == InitFilename /\ [][NextObservers]_vars
----------------------------------------------------------------------------
\* Properties

\* downloadPDFWithProgress has been entered by task t and the file is open or
\* has failed to open; it has returned.
Running(t) == pc[t] \in {"requesting"} \cup InLoop \cup AfterReturn
Returned(t) == pc[t] \in AfterReturn
DestFile(t) == files[eng[t].path].data

\* The size of the source as the answer of the server states it, and whether
\* the body of a 206 answer is the rest of a source of that size.
TrueTotal(e) == IF e.resp.status = 206 THEN e.resp.cr ELSE e.resp.cl
HonestAnswer(e) ==
    e.resp.status = 206 => e.resp.cr = e.startPos + Len(e.resp.body)

\* C1: a run that finds k bytes (0 <= k < total) in the destination and reaches
\* end-of-stream has asked for the range starting at k (no Range header when
\* k = 0) and leaves a file of exactly total bytes, for a 206 and for a 200
\* answer alike.
C1_ResumeExact ==
    \A t \in Tasks :
        (/\ Returned(t) /\ eng[t].err = ""
         /\ HonestAnswer(eng[t])
         /\ eng[t].startPos < TrueTotal(eng[t]))
        => /\ eng[t].range = (IF eng[t].startPos = 0 THEN -1 ELSE eng[t].startPos)
           /\ Len(DestFile(t)) = TrueTotal(eng[t])

\* percent is in 0..100 and, when total > 0, is 100 * downloaded / total.
PercentDerived(r) ==
    /\ PctInRange(r.percent)
    /\ r.total > 0 => PctEq(r.percent, Percent(r.downloaded, r.total))

\* C2: every sample the engine emits and every record the web layer
\* broadcasts has 0 <= percent <= 100 and, when total > 0,
\* percent = 100 * downloaded / total.
C2_PercentDerived ==
    /\ \A t \in Tasks :
          hub.pub[t].rec # NoRec => PercentDerived(hub.pub[t].rec)
    /\ \A t \in Tasks : \A i \in DOMAIN eng[t].samples :
          PercentDerived(eng[t].samples[i])

EngineErrors ==
    {"", "open_error", "new_request_error", "request_error", "server_error",
     "resume_unsupported", "bad_content_range", "size_unknown", "seek_error",
     "cancelled", "write_error", "read_error"}

\* The call of broadcastProgress task t is in was made by the progress
\* callback of its engine.
ByCallback(t) == pc[t] \in {"pub_tick", "pub_eof"}

\* C3: a call of broadcastProgress goes over every connection registered
\* when it is made, whatever writes fail in it; when it returns, each of
\* them whose write has not failed has got the record; a call made by the
\* progress callback in which a write has failed does not panic; and the
\* engine that made the call goes on as it would have: it fails only with an
\* error of its own, and what it counted and wrote is untouched.
C3_DeliveryContinues ==
    \A t \in Tasks :
        LET p == hub.pub[t]
        IN  /\ (p.active /\ Marshalable(p.rec)) => p.to = hub.clients
            /\ p.active => p.got \cup p.fails \cup p.todo = p.to
            /\ (~p.active /\ t \notin hub.panicked) => p.got = p.to \ p.fails
            /\ (ByCallback(t) /\ p.fails # {}) => t \notin hub.panicked
            /\ eng[t].err \in EngineErrors
            /\ pc[t] \in InLoop => eng[t].err = ""
            /\ pc[t] \in InLoop \ {"write"} =>
                  eng[t].downloaded = eng[t].startPos + Len(eng[t].written)
            /\ Running(t) => DestFile(t) = eng[t].file0 \o eng[t].written

\* C4: when broadcastProgress has returned, a connection whose write failed
\* in it is no longer in ws.clients.
C4_FailedRemoved ==
    \A t \in Tasks : ~hub.pub[t].active => hub.pub[t].fails \cap hub.clients = {}

NonDecreasing(q) ==
    \A i \in 1..(Len(q) - 1) : q[i].downloaded <= q[i + 1].downloaded

\* C5: the downloaded values of the samples of a run never decrease, and
\* when the run returns the last sample's downloaded is the size of the file.
C5_LastSampleIsFileSize ==
    \A t \in Tasks :
        /\ Running(t) => NonDecreasing(eng[t].samples)
        /\ (Returned(t) /\ eng[t].samples # <<>>) =>
              Last(eng[t].samples).downloaded = Len(DestFile(t))

\* C6: the iteration that meets the end of the stream hands exactly one
\* sample to the callback.
C6_FinalOnce ==
    \A t \in Tasks : (Returned(t) /\ eng[t].err = "") => eng[t].emits = 1

\* The transitions of the status field the specification's state machine names.
SpecTransitions ==
    {<<"none", "pending">>, <<"pending", "downloading">>,
     <<"downloading", "downloading">>, <<"downloading", "completed">>,
     <<"downloading", "failed">>}

StatusStep(allowed) ==
    \A t \in Tasks :
        \/ progress'[t].status = progress[t].status
        \/ <<progress[t].status, progress'[t].status>> \in allowed

\* C7: the status of a record only goes pending -> downloading,
\* downloading -> completed and downloading -> failed.
C7_StateMachine == [][StatusStep(SpecTransitions)]_vars

\* C7 as amended: the status of a record only goes pending -> downloading,
\* downloading -> completed, downloading -> failed and, for a transfer that
\* fails before its first sample, pending -> failed; a pending record never
\* becomes completed, and completed and failed are never left.
C7_Amended ==
    [][StatusStep(SpecTransitions \cup {<<"pending", "failed">>})]_vars

C7_Witness ==
    \E t \in Tasks :
        /\ pc[t] = "done"
        /\ progress[t].status = "failed"
        /\ progress[t].total = 0
        /\ progress[t].errorMsg = "server_error"

\* Task t enters broadcastProgress in the step.
Enters(t) == hub'.pub[t].active /\ ~hub.pub[t].active

\* Task t returns from broadcastProgress in the step.
Leaves(t) == ~hub'.pub[t].active /\ hub.pub[t].active

PublishStep ==
    \A t \in Tasks :
        /\ Enters(t) =>
              LET rec    == hub'.pub[t].rec
                  before == hub.last[rec.task_id]
              IN  /\ rec.downloaded >= before.downloaded
                  /\ ~IsTerminal(before.status)
        /\ Leaves(t) => hub'.pub[t].got = hub'.pub[t].to \ hub'.pub[t].fails

\* C8: the records published under one task identifier are published, and so
\* written to every connection that stays open, in non-decreasing downloaded
\* order; nothing is published under a task identifier after a terminal
\* record, and a finished task has published exactly one terminal record
\* under its identifier.
C8_OrderedTerminalLast ==
    /\ [][PublishStep]_vars
    /\ [](\A i \in TaskIds : hub.nterm[i] <= 1)
    /\ [](\A t \in Tasks : pc[t] = "done" => hub.nterm[progress[t].task_id] = 1)

\* C9: a 206 answer without Content-Range makes the run fail with the
\* resume-unsupported error; nothing is written and no sample is emitted.
C9_ResumeUnsupported ==
    \A t \in Tasks :
        (Running(t) /\ eng[t].resp.status = 206 /\ eng[t].resp.cr = CRAbsent)
        => /\ Returned(t)
           /\ eng[t].err = "resume_unsupported"
           /\ DestFile(t) = eng[t].file0
           /\ eng[t].written = <<>>
           /\ eng[t].samples = <<>>

C9_Witness ==
    \E t \in Tasks :
        /\ Returned(t) /\ eng[t].resp.status = 206 /\ eng[t].resp.cr = CRAbsent
        /\ eng[t].resp.body # <<>>
        /\ eng[t].file0 # <<>>

\* C10: however a run ends, the bytes the file held before the run are
\* unchanged and the file is not shortened: the file is what it was,
\* followed by exactly the bytes the run wrote.
C10_PrefixKept ==
    \A t \in Tasks :
        Running(t) =>
            /\ Len(DestFile(t)) >= Len(eng[t].file0)
            /\ Take(DestFile(t), Len(eng[t].file0)) = eng[t].file0
            /\ DestFile(t) = eng[t].file0 \o eng[t].written

C10_Witness ==
    \E t \in Tasks :
        /\ Returned(t) /\ eng[t].err = "cancelled"
        /\ eng[t].file0 # <<>>
        /\ eng[t].written # <<>>
        /\ eng[t].body # <<>>

\* Task t has got an answer with a status code outside 200..299.
Refused(t) == eng[t].resp.status # 0 /\ ~(eng[t].resp.status \in 200..299)

\* C11: after an answer with a non-2xx status the run returns the server
\* error naming that status, having sent exactly one request, written nothing,
\* left the file offset where it was and emitted no sample; the web layer
\* then publishes the task as failed with a non-empty error message.
C11_ServerError ==
    /\ [](\A t \in Tasks :
            (Running(t) /\ Refused(t)) =>
                /\ Returned(t)
                /\ eng[t].err = "server_error"
                /\ eng[t].errCode = eng[t].resp.status
                /\ eng[t].requests = 1
                /\ eng[t].written = <<>>
                /\ DestFile(t) = eng[t].file0
                /\ eng[t].pos = 0
                /\ eng[t].samples = <<>>
                /\ pc[t] # "returned" =>
                      /\ progress[t].status = "failed"
                      /\ progress[t].errorMsg # "")
    /\ [][\A t \in Tasks :
            (Refused(t) /\ pc[t] # "pub_final" /\ pc'[t] = "pub_final") =>
                hub'.pub[t].rec = progress[t]]_vars

\* C12: once the total size is known (total > 0), downloaded <= total and no
\* byte has been written to the destination at a position >= total, whatever
\* the length of the body the server sends.
C12_WithinTotal ==
    \A t \in Tasks :
        (Running(t) /\ eng[t].totalSize > 0) =>
            /\ eng[t].downloaded <= eng[t].totalSize
            /\ eng[t].written # <<>> => eng[t].pos <= eng[t].totalSize

\* C13: a run whose cancellation signal has fired, before or during any of
\* its steps, returns the cancelled error, and the file is what it was
\* followed by the bytes written so far.
C13_Cancelled ==
    \A t \in Tasks :
        (Returned(t) /\ eng[t].ctxDone) =>
            /\ eng[t].err = "cancelled"
            /\ DestFile(t) = eng[t].file0 \o eng[t].written

\* The last path segment of the URL without its query part.
LastSegment(u) ==
    LET last == Split(u, Ch.slash)[Len(Split(u, Ch.slash))]
    IN  IF Contains(last, Ch.query) THEN Take(last, IndexOf(last, Ch.query) - 1)
        ELSE last

\* C14: the file name got from a URL ends in ".pdf" (in any case), is not
\* empty and is not just ".pdf", also after the purely numeric '_'-separated
\* parts have been dropped; for a last segment that is neither empty nor
\* ".pdf" and has no '_' and no '%' it is the segment without its query part, with ".pdf"
\* appended unless the segment ends in ".pdf" already.
C14_DefaultFilename ==
    \A t \in Tasks :
        pc[t] = "spawned" =>
            LET u    == eng[t].url
                seg  == LastSegment(u)
                name == progress[t].filename
            IN  /\ HasSuffix(ToLower(name), DotPdf)
                /\ name # <<>>
                /\ name # DotPdf
                /\ (/\ seg # <<>> /\ seg # DotPdf
                    /\ ~Contains(seg, Ch.under) /\ ~Contains(seg, Ch.pct))
                      => name = (IF HasSuffix(ToLower(seg), DotPdf) THEN seg
                                 ELSE seg \o DotPdf)

\* The strings of up to two of the digits "3" and "0".
ShortDigits == StringsOfLen({<<51>>, <<48>>}, 2)

\* "<a>.<b>" seconds in nanoseconds, read off the text, for a string b of at
\* most nine digits: the digits of a, those of b and zeros up to nine places.
DecimalSeconds(a, b) ==
    Norm([i \in 1..(Len(a) + 9) |->
            IF i <= Len(a) THEN a[i] - 48
            ELSE IF i - Len(a) <= Len(b) THEN b[i - Len(a)] - 48 ELSE 0])

\* Byte i of str is a letter of a unit.
UnitByte(str, i) == str[i] \in {115, 110}

\* The dot at i comes after another dot of the same number.
SecondDot(str, i) ==
    \E j \in 1..(i - 1) :
        str[j] = Ch.dot /\ \A k \in (j + 1)..(i - 1) : IsDigit(str[k])

\* The string, made of digits, dots, '-', 's' and 'n', is not of the form
\* [-](<digits>[.<digits>]<unit>)+ with a digit in every number and each
\* unit "s" or "ns", and is neither "0" nor "-0".
Malformed(str) ==
    \/ str = <<>>
    \/ str \in {<<Ch.minus>>, <<Ch.minus, Ch.minus>>}
    \/ /\ ~UnitByte(str, Len(str))
       /\ str \notin {<<48>>, <<Ch.minus, 48>>}
    \/ \E i \in 2..Len(str) : str[i] = Ch.minus
    \/ UnitByte(str, 1)
    \/ Len(str) > 1 /\ str[1] = Ch.minus /\ UnitByte(str, 2)
    \/ \E i \in 1..Len(str) :
          /\ str[i] = 110
          /\ i = Len(str) \/ str[i + 1] # 115
    \/ \E i \in 1..(Len(str) - 1) : str[i] = 115 /\ UnitByte(str, i + 1)
    \/ \E i \in 1..Len(str) :
          /\ str[i] = Ch.dot
          /\ i = 1 \/ ~IsDigit(str[i - 1])
          /\ i = Len(str) \/ ~IsDigit(str[i + 1])
    \/ \E i \in 1..Len(str) : str[i] = Ch.dot /\ SecondDot(str, i)

\* What the text of the Timeout string str says of the duration d: for a
\* number of seconds or of nanoseconds with up to two digits before and after
\* the point, with or without a '-', and for the sum of two numbers of
\* seconds.
writtenDuration(str, d) ==
    \A a \in ShortDigits, b \in ShortDigits, neg \in BOOLEAN :
        LET sign == IF neg THEN <<Ch.minus>> ELSE <<>>
        IN  /\ (a # <<>> /\ str = sign \o a \o <<115>>) =>
                  d = Dur(neg, DecimalSeconds(a, <<>>))
            /\ (a \o b # <<>> /\ str = sign \o a \o <<Ch.dot>> \o b \o <<115>>) =>
                  d = Dur(neg, DecimalSeconds(a, b))
            /\ (a # <<>> /\ str = sign \o a \o <<110, 115>>) =>
                  d = Dur(neg, DigitsOf(a))
            /\ (a \o b # <<>> /\ str = sign \o a \o <<Ch.dot>> \o b \o <<110, 115>>) =>
                  d = Dur(neg, DigitsOf(a))
            /\ (Len(a) = 1 /\ Len(b) = 1
                  /\ str = a \o <<115>> \o b \o <<115>>) =>
                  d = Dur(FALSE, Norm(<<a[1] + b[1] - 96, 0, 0, 0, 0, 0, 0, 0, 0, 0>>))

\* The Timeout strings with a fraction of more digits than a float64 holds
\* or with more seconds than a Duration holds, and their durations in Go.
Nines == [i \in 1..17 |-> 57]
TooManySeconds == <<57, 50, 50, 51, 51, 55, 50, 48, 51, 55>>
LongTimeouts ==
    {[str |-> <<48, Ch.dot>> \o LongFraction \o <<115>>,
      d |-> Dur(FALSE, <<8, 7>>)],
     [str |-> <<Ch.dot>> \o LongFraction \o <<115>>, d |-> Dur(FALSE, <<8, 7>>)],
     [str |-> <<Ch.minus, Ch.dot>> \o LongFraction \o <<115>>,
      d |-> Dur(TRUE, <<8, 7>>)],
     [str |-> <<Ch.dot>> \o Nines \o <<115>>,
      d |-> Dur(FALSE, <<1, 0, 0, 0, 0, 0, 0, 0, 0, 0>>)],
     [str |-> <<51, Ch.dot>> \o Nines \o <<115>>,
      d |-> Dur(FALSE, <<4, 0, 0, 0, 0, 0, 0, 0, 0, 0>>)],
     [str |-> <<Ch.dot>> \o Nines \o <<110, 115>>, d |-> Dur(FALSE, <<1>>)],
     [str |-> Nines \o <<110, 115>>, d |-> Dur(FALSE, DigitsOf(Nines))],
     [str |-> TooManySeconds \o <<110, 115>>, d |-> Dur(FALSE, DigitsOf(TooManySeconds))],
     [str |-> TooManySeconds \o <<115>>, d |-> DefaultTimeout],
     [str |-> <<Ch.minus>> \o TooManySeconds \o <<115>>, d |-> DefaultTimeout],
     [str |-> TooManySeconds \o <<Ch.dot, 115>>, d |-> DefaultTimeout],
     [str |-> Nines \o <<115>>, d |-> DefaultTimeout]}

\* What the specification of GetTimeoutDuration says of the Timeout string
\* str, of the answer r = [ok, d] of time.ParseDuration for it and of the
\* duration d returned: the duration ParseDuration gives, or 30 seconds
\* when it gives none; "s" does not parse, "3s" is 3 000 000 000 ns; and a
\* string whose duration its text tells has that duration, a malformed
\* string 30 seconds.
specifiedTimeout(str, r, d) ==
    /\ d.neg \in BOOLEAN /\ d.mag \in Seq(0..9)
    /\ r.ok => d = r.d
    /\ ~r.ok => d = DefaultTimeout
    /\ str \in {<<>>, ThirtySeconds, <<115>>} => d = DefaultTimeout
    /\ str = ThreeSeconds => d = Dur(FALSE, <<3, 0, 0, 0, 0, 0, 0, 0, 0, 0>>)
    /\ str \in {<<48>>, <<Ch.minus, 48>>} => d = Dur(FALSE, <<>>)
    /\ Malformed(str) => d = DefaultTimeout
    /\ writtenDuration(str, d)
    /\ \A x \in LongTimeouts : str = x.str => d = x.d

TimeoutAsSpecified(str, d) == specifiedTimeout(str, ParseDuration(str), d)

\* handleDownload of task t has got its copy of the configuration and its
\* timeout.
Copied(t) == pc[t] \in (Handling \ {"copy"}) \cup {"spawned"}

\* C15: the timeout of every transfer is the duration its configuration's
\* Timeout string parses to, and 30 seconds when the string does not parse,
\* the empty string included.
C15_TimeoutTotal ==
    \A t \in Tasks :
        Copied(t) => TimeoutAsSpecified(eng[t].copied.Timeout, eng[t].timeout)

C15_Witness ==
    \E t \in Tasks :
        /\ pc[t] = "spawned"
        /\ Malformed(eng[t].copied.Timeout)
        /\ Len(eng[t].copied.Timeout) > 2
        /\ UnitByte(eng[t].copied.Timeout, Len(eng[t].copied.Timeout))
        /\ eng[t].timeout = DefaultTimeout

\* C16: the configuration Config.Copy returns to handleDownload has the URL,
\* OutputDir, OutputPath, Timeout, ChunkSize and every Headers entry of
\* ws.config, and ws.config is what it was.
C16_CopyEqual ==
    [][\A t \in Tasks :
          (pc[t] = "copy" /\ pc'[t] = "headers") =>
              /\ eng'[t].copied.URL = config.URL
              /\ eng'[t].copied.OutputDir = config.OutputDir
              /\ eng'[t].copied.OutputPath = config.OutputPath
              /\ eng'[t].copied.Timeout = config.Timeout
              /\ eng'[t].copied.ChunkSize = config.ChunkSize
              /\ DOMAIN eng'[t].copied.Headers = DOMAIN config.Headers
              /\ \A k \in DOMAIN config.Headers :
                    eng'[t].copied.Headers[k] = config.Headers[k]
              /\ config' = config]_vars

C16_Witness ==
    \E t \in Tasks :
        /\ pc[t] = "headers"
        /\ eng[t].copied = config
        /\ config.URL # <<>>
        /\ config.OutputDir = Tmp
        /\ config.OutputPath = TestPdf
        /\ config.Timeout = ThreeSeconds
        /\ config.ChunkSize = MaxChunk
        /\ DOMAIN config.Headers = {LowerXToken}

\* The canonical forms of the keys of the header map m.
CanonicalKeys(m) == {CanonicalKey(k) : k \in DOMAIN m}

\* C17: in the request sent, every header of the caller has the caller's
\* value, the empty string included; a default is set only for a key the
\* caller has not set; the Range header names the resume offset and is there
\* exactly when that offset is positive.
C17_CallerHeadersKept ==
    \A t \in Tasks :
        (Running(t) /\ eng[t].requests = 1) =>
            /\ \A k \in DOMAIN eng[t].headers :
                  /\ CanonicalKey(k) \in DOMAIN eng[t].req
                  /\ eng[t].req[CanonicalKey(k)] = eng[t].headers[k]
            /\ DOMAIN eng[t].req =
                  CanonicalKeys(eng[t].headers) \cup DOMAIN getDefaultHttpHeaders
            /\ \A d \in DOMAIN getDefaultHttpHeaders \ CanonicalKeys(eng[t].headers) :
                  eng[t].req[d] = getDefaultHttpHeaders[d]
            /\ eng[t].range = (IF eng[t].startPos > 0 THEN eng[t].startPos ELSE -1)
            /\ eng[t].startPos = Len(eng[t].file0)

\* C18: after a 200 answer the total size of the run is the Content-Length
\* of the answer, whatever the resume offset; with a Content-Length that is
\* absent or not positive the run returns the size-unknown error and has
\* written nothing.
C18_FullContentTotal ==
    \A t \in Tasks :
        (Running(t) /\ eng[t].resp.status = 200) =>
            /\ eng[t].resp.cl > 0 => eng[t].totalSize = eng[t].resp.cl
            /\ eng[t].resp.cl <= 0 =>
                  /\ Returned(t)
                  /\ eng[t].err = "size_unknown"
                  /\ eng[t].written = <<>>
                  /\ DestFile(t) = eng[t].file0

\* The run of task t has handed its end-of-stream sample over.
Ended(t) == pc[t] \in {"lock_eof", "wait_eof", "pub_eof"} \/ (Returned(t) /\ eng[t].err = "")

CadenceStep ==
    \A t \in Tasks :
        /\ (eng'[t].samples # eng[t].samples /\ pc'[t] # "done") =>
              /\ pc[t] \in {"cb_tick", "cb_eof"}
              /\ eng'[t].samples =
                    Append(eng[t].samples,
                           sample(eng[t].downloaded, eng[t].totalSize))
        /\ (pc'[t] = "cb_tick" /\ pc[t] # "cb_tick") =>
              /\ eng[t].ticker /\ ~eng'[t].ticker
              /\ Len(eng'[t].written) > Len(eng[t].written)
        /\ (pc[t] = "cb_tick" /\ pc'[t] # "cb_tick") =>
              Len(eng'[t].samples) = Len(eng[t].samples) + 1

\* C19: a pending tick gives at most one sample and is used up by it; the
\* sample is emitted only by an iteration that has written a chunk, so that
\* every sample but the end-of-stream one has a downloaded value greater than
\* the sample before it; an iteration without new data emits no sample for a
\* tick.
C19_Cadence ==
    /\ [][CadenceStep]_vars
    /\ [](\A t \in Tasks :
            Running(t) =>
                \A i \in 1..(Len(eng[t].samples) - 1) :
                    (i + 1 < Len(eng[t].samples) \/ ~Ended(t)) =>
                        eng[t].samples[i].downloaded < eng[t].samples[i + 1].downloaded)

C19_Witness ==
    \E t \in Tasks :
        /\ Returned(t) /\ eng[t].err = "read_error"
        /\ eng[t].ticker
        /\ Len(eng[t].samples) >= 1
        /\ Len(eng[t].written) > Last(eng[t].samples).downloaded - eng[t].startPos

\* C20: every transfer started has an entry in the registry ws.progress
\* under its task identifier, and after every event the entry is the record
\* last published for the task.
C20_RegistryTracks ==
    \A t \in Tasks :
        progress[t].status # "none" =>
            /\ progress[t].task_id \in DOMAIN registry
            /\ registry[progress[t].task_id] = progress[t]

\* C21: no two transfers that are in their chunk loops at the same time have
\* the same destination path.
C21_DistinctDestinations ==
    \A t1 \in Tasks, t2 \in Tasks :
        (t1 # t2 /\ pc[t1] \in InLoop /\ pc[t2] \in InLoop) =>
            eng[t1].path # eng[t2].path

\* The transfer descriptor of task t.
Descriptor(t) ==
    [url |-> eng[t].url, path |-> eng[t].path, chunk |-> eng[t].chunk,
     timeout |-> eng[t].timeout, headers |-> eng[t].headers]

\* C22: while a transfer is in flight no step, of the engine or of a
\* save-config or reset-config request, changes its URL, destination, chunk
\* size, timeout or headers, and the request it has sent was built from the
\* headers of the descriptor, whatever ws.config held then.
C22_DescriptorFixed ==
    /\ [][\A t \in Tasks :
            (InFlight(t) /\ pc'[t] # "done") => Descriptor(t)' = Descriptor(t)]_vars
    /\ [](\A t \in Tasks :
            (InFlight(t) /\ eng[t].requests = 1) =>
                eng[t].req \in requestHeaders(eng[t].headers))

C22_Witness ==
    \E t \in Tasks :
        /\ pc[t] = "loop"
        /\ eng[t].written # <<>>
        /\ config = TestConfig
        /\ config.Headers # eng[t].headers
        /\ config.ChunkSize # eng[t].chunk
        /\ config.OutputPath # eng[t].path
        /\ config.Timeout # eng[t].copied.Timeout
        /\ eng[t].req \notin requestHeaders(config.Headers)

\* C23: every transfer that has been started eventually publishes its
\* terminal record, as long as the process runs, whatever the server and
\* the observers do, and the record is sent to every connection registered
\* at that moment.
C23_TerminalPublished ==
    /\ \A t \in Tasks : (pc[t] = "spawned") ~> (pc[t] = "done" \/ ~Up)
    /\ [][\A t \in Tasks :
            (pc[t] # "pub_final" /\ pc'[t] = "pub_final") =>
                hub'.pub[t].to = hub.clients]_vars

\* C24: at every iteration boundary of the chunk loop, downloaded equals the
\* start offset plus the bytes written in this run, which equals the write
\* position of the file and the length of the file; and a single write is at
\* most chunk-size bytes long.
C24_LoopInvariant ==
    [][\A t \in Tasks :
          /\ pc'[t] = "loop" =>
                /\ eng'[t].downloaded = eng'[t].startPos + Len(eng'[t].written)
                /\ eng'[t].downloaded = eng'[t].pos
                /\ eng'[t].pos = Len(files'[eng'[t].path].data)
          /\ pc[t] = "write" =>
                Len(eng'[t].written) - Len(eng[t].written) <= eng[t].chunk]_vars

\* C25: when several transfers publish concurrently, at most one write is in
\* progress on any observer connection at any time, and the connection set
\* of the hub is not added to or removed from while a publish is iterating
\* over it.
C25_OneWriterPerConnection ==
    [][/\ \A t1 \in Tasks, t2 \in Tasks :
             (t1 # t2 /\ hub'.pub[t1].at # 0) => hub'.pub[t1].at # hub'.pub[t2].at
       /\ ReadLocked(hub) => hub'.clients = hub.clients]_vars

\* C26: a run on a destination that already holds the complete file (k bytes
\* found, k the size of the source) leaves the length and the content of the
\* file unchanged, whatever the server answers to the request for the range
\* starting at k: an error status, partial content or the full content.
C26_CompleteFileUntouched ==
    \A t \in Tasks :
        LET e == eng[t]
        IN  (/\ Returned(t)
             /\ e.startPos > 0
             /\ \/ e.resp.status \in ErrorStatuses
                \/ /\ e.resp.status \in {200, 206}
                   /\ TrueTotal(e) = e.startPos
                   /\ HonestAnswer(e))
            => DestFile(t) = e.file0
====
